---- MODULE Spec2Model ----
(***************************************************************************)
(* A model of the entity loading / population subsystem of the ORM         *)
(* (packages/core/src/entity/EntityLoader.ts).                             *)
(*                                                                         *)
(* The loader's collaborators that live outside EntityLoader.ts (the       *)
(* EntityManager's find, the driver's loadFromPivotTable, the entity       *)
(* factory, the unit of work, Collection.hydrate, em.canPopulate) are      *)
(* modelled after their contracts in the design document, sections 3, 4.4  *)
(* and 6.                                                                  *)
(***************************************************************************)
EXTENDS Integers, Sequences, FiniteSets, TLC

VARIABLES
  cfg,     \* metadata options of the discovered schema (eager flags, declared strategies)
  db,      \* the store: foreign keys and pivot rows
  ents,    \* the in-memory entity instances and their relationship slots
  call,    \* the populate() invocation in progress
  log,     \* the batched fetches issued by the current invocation, in order
  ncalls,  \* populate() invocations started so far
  nwrites, \* store writes made so far
  norm     \* probe of a pure function of the loader: its input and its output

vars == <<cfg, db, ents, call, log, ncalls, nwrites, norm>>

(***************************************************************************)
(* Bounds of the model.                                                    *)
(***************************************************************************)
MaxPk == 2
MaxCalls == 2
MaxWrites == 1
MaxFields == 2

(***************************************************************************)
(* Generic helpers on sequences.                                           *)
(***************************************************************************)
Range(s) == {s[i] : i \in DOMAIN s}

Contains(s, x) == \E i \in DOMAIN s : s[i] = x

RECURSIVE Flatten(_)
Flatten(ss) == IF ss = <<>> THEN <<>> ELSE Head(ss) \o Flatten(Tail(ss))

\* Utils.unique that leaves the list as it is.
NotUnique(s) == s

\* Utils.unique: keeps the first occurrence of every element, in order.
RECURSIVE Unique(_)
Unique(s) ==
  IF s = <<>> THEN <<>>
  ELSE LET r == Unique(SubSeq(s, 1, Len(s) - 1))
           x == s[Len(s)]
       IN IF Contains(r, x) THEN r ELSE Append(r, x)

\* Index of the first element equal to x (0 when absent).
IndexOf(s, x) == IF Contains(s, x) THEN CHOOSE i \in DOMAIN s : s[i] = x /\ \A j \in 1..(i - 1) : s[j] # x ELSE 0

(***************************************************************************)
(* Metadata registry.  The entity types are those of the GH3177 test, with *)
(* a lazy scalar and a one-to-one pair added so that every branch of the   *)
(* loader is reachable.                                                    *)
(***************************************************************************)
Types == {"User", "UserAccessProfile", "Permission"}

Undefined == "undefined"
JOINED == "joined"
SELECT_IN == "select-in"

SCALAR == "scalar"
MANY_TO_ONE == "m:1"
ONE_TO_ONE == "1:1"
ONE_TO_MANY == "1:m"
MANY_TO_MANY == "m:n"
EMBEDDED == "embedded"

ScalarProp(name, lazy) ==
  [name |-> name, reference |-> SCALAR, type |-> "number", owner |-> FALSE,
   mappedBy |-> "", lazy |-> lazy, embedded |-> <<>>]

RelProp(name, reference, type, owner, mappedBy) ==
  [name |-> name, reference |-> reference, type |-> type, owner |-> owner,
   mappedBy |-> mappedBy, lazy |-> FALSE, embedded |-> <<>>]

\* A property that holds an embeddable of the given type.
EmbeddedProp(name, type) == RelProp(name, EMBEDDED, type, FALSE, "")

\* The property d as the entity has it for the property `name` of the
\* embeddable in its property `parent`: prop.embedded is [parent, name].
InEmbedded(d, parent, name) == [d EXCEPT !.embedded = <<parent, name>>]

PropDefs(t) ==
  CASE t = "User" ->
         << ScalarProp("id", FALSE),
            ScalarProp("name", FALSE),
            ScalarProp("bio", TRUE),
            RelProp("accessProfile", MANY_TO_ONE, "UserAccessProfile", TRUE, ""),
            RelProp("ownedProfile", ONE_TO_ONE, "UserAccessProfile", FALSE, "owner") >>
    [] t = "UserAccessProfile" ->
         << ScalarProp("id", FALSE),
            RelProp("users", ONE_TO_MANY, "User", FALSE, "accessProfile"),
            RelProp("permissions", MANY_TO_MANY, "Permission", TRUE, ""),
            RelProp("owner", ONE_TO_ONE, "User", TRUE, "") >>
    [] t = "Permission" ->
         << ScalarProp("id", FALSE),
            RelProp("accessProfiles", MANY_TO_MANY, "UserAccessProfile", FALSE, "permissions") >>
    [] t = "Category" ->
         << ScalarProp("id", FALSE),
            RelProp("parent", MANY_TO_ONE, "Category", TRUE, "") >>
    [] t = "Author" ->
         << ScalarProp("id", FALSE),
            EmbeddedProp("address", "Address"),
            InEmbedded(RelProp("address_city", MANY_TO_ONE, "City", TRUE, ""),
                       "address", "city"),
            RelProp("constructor", MANY_TO_ONE, "City", TRUE, "") >>
    [] t = "Address" ->
         << ScalarProp("street", FALSE),
            RelProp("city", MANY_TO_ONE, "City", TRUE, "") >>
    [] t = "City" ->
         << ScalarProp("id", FALSE) >>
    [] OTHER -> <<>>

\* Entity types the metadata knows, of which the store has no rows and which
\* no caller loads: a self-referencing type, and a type with a relation inside
\* an embeddable and a relation named like a member of Object.prototype,
\* together with the target of these relations.
TreeTypes == {"Category", "Author", "City"}

\* The embeddables: the metadata has them under their names as well.
Embeddables == {"Address"}

\* MetadataStorage.find: undefined for a name that is no entity type.
HasMeta(t) == t \in Types \cup TreeTypes \cup Embeddables

\* The names of the properties in the list d.
NamesOf(d) == {d[i].name : i \in DOMAIN d}

PropNames(t) == NamesOf(PropDefs(t))

HasProp(t, f) == HasMeta(t) /\ f \in PropNames(t)

\* The property named f of the list d.
PropNamed(d, f) == d[CHOOSE i \in DOMAIN d : d[i].name = f]

\* The declared property d of type t with the options of the schema configuration.
WithSchemaOptions(d, t) ==
  [name |-> d.name, reference |-> d.reference, type |-> d.type, owner |-> d.owner,
   mappedBy |-> d.mappedBy, lazy |-> d.lazy, embedded |-> d.embedded,
   eager |-> (<<t, d.name>> \in cfg.eager),
   mapToPk |-> (<<t, d.name>> \in cfg.mapToPk),
   strategy |-> IF <<t, d.name>> \in cfg.joined THEN JOINED ELSE Undefined]

\* meta.properties[f], with the options the schema configuration gives it.
Prop(t, f) == WithSchemaOptions(PropNamed(PropDefs(t), f), t)

\* The names of the relations of the list d, in order.
RelationNames(d) ==
  LET rels == SelectSeq(d, LAMBDA x : x.reference \notin {SCALAR, EMBEDDED})
  IN [i \in DOMAIN rels |-> rels[i].name]

\* meta.relations: the names of the non-scalar properties, in declaration order.
Relations(t) == RelationNames(PropDefs(t))

(***************************************************************************)
(* Populate specs.  A node is { field, strategy?, all?, children? }.  A    *)
(* field is kept as the sequence of its dot-separated segments, so that    *)
(* "a.b" is <<"a", "b">> and field.includes('.') is Len(field) > 1.        *)
(* children is undefined (def = FALSE) or an array (def = TRUE).           *)
(***************************************************************************)
NoChildren == [def |-> FALSE, list |-> <<>>]

Children(list) == [def |-> TRUE, list |-> list]

Node(field, strategy, all, children) ==
  [field |-> field, strategy |-> strategy, all |-> all, children |-> children]

\* The node the EntityManager builds for a populate string such as 'a.b'.
FieldNode(field) == Node(field, Undefined, FALSE, NoChildren)

\* a ?? b
Coalesce(a, b) == IF a = Undefined THEN b ELSE a

\* The errors populate ends with.
NotDiscoveredEntity == "ValidationError: not-discovered-entity"
InvalidPropertyName == "ValidationError: invalid-property-name"
TypeError == "TypeError"
FetchError == "FetchError"

RangeError == "RangeError"

\* EntityLoader.getRelationName: the name of the property, or for a property of
\* an embeddable the name of the embedded property, a dot, and the name the
\* embeddable has for it; as the sequence of the dot-separated segments.
RECURSIVE getRelationName(_, _)
getRelationName(entityName, name) ==
  IF PropNamed(PropDefs(entityName), name).embedded = <<>> THEN <<name>>
  ELSE getRelationName(entityName, PropNamed(PropDefs(entityName), name).embedded[1])
         \o <<PropNamed(PropDefs(entityName), name).embedded[2]>>

\* lookupAllRelationships that leaves the strategy of the relations open.
lookupAllRelationshipsUnforced(entityName) ==
  IF ~HasMeta(entityName) THEN TypeError
  ELSE [i \in DOMAIN Relations(entityName) |->
          Node(getRelationName(entityName, Relations(entityName)[i]), Undefined, TRUE,
               NoChildren)]

\* EntityLoader.lookupAllRelationships: one node per relation; meta.relations of
\* an undefined meta is a TypeError (line 490).
lookupAllRelationships(entityName) ==
  IF ~HasMeta(entityName) THEN TypeError
  ELSE [i \in DOMAIN Relations(entityName) |->
          Node(getRelationName(entityName, Relations(entityName)[i]), SELECT_IN, TRUE,
               NoChildren)]

(***************************************************************************)
(* The objects of a populate spec.  The loader works on the nodes and the  *)
(* arrays of the caller in place and shares them between arrays, so they   *)
(* are kept as objects with an identity: nodes[n] is the node n, whose     *)
(* children is the number of an array (0: undefined), and arrs[a] is the   *)
(* array a, the sequence of the numbers of its nodes.                      *)
(*   The loader keeps nodes in a plain object keyed by their field (line   *)
(* 107).  A plain object inherits the members of Object.prototype, so the  *)
(* members are objects of the spec as well: proto[i] is the children       *)
(* property of the member ObjectPrototype[i] (0: undefined).  The first    *)
(* member, __proto__, is Object.prototype itself: its children property is *)
(* inherited by every object that has none of its own.                     *)
(***************************************************************************)
\* The names a plain object inherits from Object.prototype.
ObjectPrototype ==
  << "__proto__", "constructor", "hasOwnProperty", "isPrototypeOf", "propertyIsEnumerable",
     "toLocaleString", "toString", "valueOf", "__defineGetter__", "__defineSetter__",
     "__lookupGetter__", "__lookupSetter__" >>

\* The decimal digits: Digits[i] is the digit of the number i - 1.
Digits == << "0", "1", "2", "3", "4", "5", "6", "7", "8", "9" >>

\* The numeral of the largest array index, 2^32 - 2.
MaxArrayIndex == "4294967294"

\* The numeral a stands for a smaller number than the numeral b (neither has a
\* leading zero): it is shorter, or as long and smaller at the first digit in
\* which they differ.
NumeralLess(a, b) ==
  \/ Len(a) < Len(b)
  \/ /\ Len(a) = Len(b)
     /\ \E i \in 1..Len(a) :
          /\ SubSeq(a, 1, i - 1) = SubSeq(b, 1, i - 1)
          /\ IndexOf(Digits, SubSeq(a, i, i)) < IndexOf(Digits, SubSeq(b, i, i))

\* The name is an array index: the canonical numeral (digits only, no leading
\* zero) of a number from 0 to 2^32 - 2.  Object.values returns the properties
\* so named first, in ascending order of their numbers.
IsArrayIndex(name) ==
  /\ Len(name) >= 1
  /\ \A i \in 1..Len(name) : Contains(Digits, SubSeq(name, i, i))
  /\ Len(name) > 1 => SubSeq(name, 1, 1) # "0"
  /\ \/ Len(name) < Len(MaxArrayIndex)
     \/ Len(name) = Len(MaxArrayIndex) /\ ~NumeralLess(MaxArrayIndex, name)

NoObjects == [nodes |-> <<>>, arrs |-> <<>>, proto |-> [i \in DOMAIN ObjectPrototype |-> 0]]

\* Object.prototype.children: what n.children yields for an object without a
\* children property of its own.
inheritedChildren(h) == h.proto[1]

\* n.children of the node n: its own property, or the inherited one.
nodeChildren(h, n) ==
  IF h.nodes[n].children # 0 THEN h.nodes[n].children ELSE inheritedChildren(h)

\* A new array holding the nodes `items`; it is the last array of the result.
NewArr(h, items) == [h EXCEPT !.arrs = Append(@, items)]

\* A new node; it is the last node of the result.
NewNode(h, field, strategy, all, children) ==
  [h EXCEPT !.nodes = Append(@, [field |-> field, strategy |-> strategy, all |-> all,
                                 children |-> children])]

\* The nodes of the array a; 0 is an empty array no other object refers to.
ArrItems(h, a) == IF a = 0 THEN <<>> ELSE h.arrs[a]

\* A children array that is one of the arrays above its node: the objects form
\* a cycle, which no tree can hold.
Circular == [def |-> TRUE, list |-> <<>>, circular |-> TRUE]

\* The tree below the node n, as a value; above holds the arrays on the way
\* down to n.
RECURSIVE ReadNodeBelow(_, _, _)
ReadNodeBelow(h, n, above) ==
  Node(h.nodes[n].field, h.nodes[n].strategy, h.nodes[n].all,
       IF h.nodes[n].children = 0 THEN NoChildren
       ELSE IF h.nodes[n].children \in above THEN Circular
       ELSE Children([i \in DOMAIN h.arrs[h.nodes[n].children] |->
                        ReadNodeBelow(h, h.arrs[h.nodes[n].children][i],
                                      above \cup {h.nodes[n].children})]))

ReadNode(h, n) == ReadNodeBelow(h, n, {})

\* The trees of the nodes `ids`, as values.
ReadNodes(h, ids) == [i \in DOMAIN ids |-> ReadNode(h, ids[i])]

\* The trees of the array a, as values.
ReadArr(h, a) == [i \in DOMAIN ArrItems(h, a) |-> ReadNodeBelow(h, ArrItems(h, a)[i], {a})]

\* The objects of the trees `list` are created; ids collects their top nodes.
RECURSIVE AllocNodes(_, _, _)
RECURSIVE AllocNext(_, _, _)
AllocParent(r, v) ==
  NewNode(NewArr(r.h, r.ids), v.field, v.strategy, v.all, Len(r.h.arrs) + 1)

AllocNodes(h, list, ids) ==
  IF list = <<>> THEN [h |-> h, ids |-> ids]
  ELSE AllocNext(IF Head(list).children.def
                 THEN AllocParent(AllocNodes(h, Head(list).children.list, <<>>), Head(list))
                 ELSE NewNode(h, Head(list).field, Head(list).strategy, Head(list).all, 0),
                 Tail(list), ids)

AllocNext(h, rest, ids) == AllocNodes(h, rest, Append(ids, Len(h.nodes)))

\* The nodes r.ids are put into a new array.
InNewArr(r) == [h |-> NewArr(r.h, r.ids), arr |-> Len(r.h.arrs) + 1]

\* The trees `list` as objects in a new array.
AllocArr(h, list) == InNewArr(AllocNodes(h, list, <<>>))

\* A populate request: true, or an array of nodes (false is the empty request).
RequestTrue == [isTrue |-> TRUE, list |-> <<>>]

RequestList(list) == [isTrue |-> FALSE, list |-> list]

\* The request as the caller holds it: true, or the array arr.
RequestRef(isTrue, arr) == [isTrue |-> isTrue, arr |-> arr]

RefOf(r) == [h |-> r.h, ref |-> RequestRef(FALSE, r.arr)]

\* The caller builds the objects of its request.
AllocRequest(h, request) ==
  IF request.isTrue THEN [h |-> h, ref |-> RequestRef(TRUE, 0)]
  ELSE RefOf(AllocArr(h, request.list))

\* The request the caller holds, as a value.
ReadRequest(h, ref) == IF ref.isTrue THEN RequestTrue ELSE RequestList(ReadArr(h, ref.arr))

\* A visited check that lets a type through until it was visited twice.
visitedTwice(visited, entityName) ==
  Cardinality({i \in DOMAIN visited : visited[i] = entityName}) >= 2

\* visited.includes(entityName) (line 514)
visitedIncludes(visited, entityName) == Contains(visited, entityName)

\* populate.some(p => p.field === name)
Requested(h, populate, name) ==
  \E i \in DOMAIN ArrItems(h, populate) : h.nodes[ArrItems(h, populate)[i]].field = <<name>>

\* populate.find(p => p.field === name)
FoundNode(h, populate, name) ==
  ArrItems(h, populate)[CHOOSE i \in DOMAIN ArrItems(h, populate) :
                          /\ h.nodes[ArrItems(h, populate)[i]].field = <<name>>
                          /\ \A j \in 1..(i - 1) : h.nodes[ArrItems(h, populate)[j]].field # <<name>>]

\* populate.find(p => p.field === prop.name)?.children ?? [] (line 526): the
\* children array of the node itself, or a new empty array.
nestedPopulateIn(h, populate, name) ==
  IF Requested(h, populate, name) THEN nodeChildren(h, FoundNode(h, populate, name)) ELSE 0

\* meta.relations.filter(prop => prop.eager || populate.some(...)) (lines 521-522)
eagerOrRequested(h, entityName, populate) ==
  SelectSeq(Relations(entityName),
            LAMBDA name : Prop(entityName, name).eager \/ Requested(h, populate, name))

\* EntityLoader.lookupEagerLoadedRelationships: it returns the array it was
\* given (line 515) or a new array ret, whose nodes are the nodes of populate
\* (top level), nodes the nested invocations returned, and new nodes.
RECURSIVE lookupEagerLoadedRelationships(_, _, _, _, _, _)
RECURSIVE eagerForEach(_, _, _, _, _, _, _, _)
\* Lines 529-536: r is what the invocation for the relation Head(rels) returned.
eagerPush(r, entityName, populate, strategy, prefix, visited, rels, ret) ==
  IF Len(ArrItems(r.h, r.arr)) > 0
  THEN eagerForEach(r.h, entityName, populate, strategy, prefix, visited, Tail(rels),
                    ret \o ArrItems(r.h, r.arr))
  ELSE eagerForEach(NewNode(r.h, prefix \o getRelationName(entityName, Head(rels)),
                            Coalesce(strategy, Prop(entityName, Head(rels)).strategy),
                            FALSE, 0),
                    entityName, populate, strategy, prefix, visited, Tail(rels),
                    Append(ret, Len(r.h.nodes) + 1))

\* The forEach of lines 523-537 over the relations rels that are left.
eagerForEach(h, entityName, populate, strategy, prefix, visited, rels, ret) ==
  IF rels = <<>> THEN InNewArr([h |-> h, ids |-> ret])
  ELSE eagerPush(lookupEagerLoadedRelationships(h, Prop(entityName, Head(rels)).type,
                                                nestedPopulateIn(h, populate, Head(rels)),
                                                strategy,
                                                prefix \o getRelationName(entityName, Head(rels)),
                                                visited),
                 entityName, populate, strategy, prefix, visited, rels, ret)

lookupEagerLoadedRelationships(h, entityName, populate, strategy, prefix, visited) ==
  IF visitedIncludes(visited, entityName) \/ ~HasMeta(entityName)
  THEN [h |-> h, arr |-> populate]
  ELSE eagerForEach(h, entityName, populate, strategy, prefix, Append(visited, entityName),
                    eagerOrRequested(h, entityName, populate),
                    IF prefix = <<>> THEN ArrItems(h, populate) ELSE <<>>)

\* Whether expandNestedPopulate dereferences an undefined metadata or property.
RECURSIVE expandThrows(_, _)
expandThrows(entityName, parts) ==
  IF ~HasMeta(entityName) THEN TRUE
  ELSE IF Len(parts) <= 1 THEN FALSE
  ELSE IF ~HasProp(entityName, parts[1]) THEN TRUE
  ELSE expandThrows(Prop(entityName, parts[1]).type, Tail(parts))

\* A new node with the field `field` whose only child is the last node of h.
expandParent(h, field, strategy, all) ==
  NewNode(NewArr(h, <<Len(h.nodes)>>), <<field>>, strategy, all, Len(h.arrs) + 1)

\* EntityLoader.expandNestedPopulate: the nodes of the path are created, the
\* node of its first part last.
RECURSIVE expandNestedPopulate(_, _, _, _, _)
expandNestedPopulate(h, entityName, parts, strategy, all) ==
  IF Len(parts) > 1
  THEN expandParent(expandNestedPopulate(h, Prop(entityName, parts[1]).type, Tail(parts),
                                         strategy, FALSE),
                    parts[1], strategy, all)
  ELSE NewNode(h, <<parts[1]>>, strategy, all, 0)

\* p.children = p.children || [] (line 93)
withChildren(h, p) ==
  IF h.nodes[p].children # 0 THEN h
  ELSE IF inheritedChildren(h) # 0 THEN [h EXCEPT !.nodes[p].children = inheritedChildren(h)]
  ELSE [NewArr(h, <<>>) EXCEPT !.nodes[p].children = Len(h.arrs) + 1]

\* Lines 92, 95 and 96 on the node p: its field becomes the first part, its
\* strategy is filled in, and the node made for the rest of the path, the last
\* node of h, is pushed to its children.
pushExpanded(h, p, strategy) ==
  [h EXCEPT !.nodes[p].field = <<@[1]>>,
            !.nodes[p].strategy = strategy,
            !.arrs[h.nodes[p].children] = Append(@, Len(h.nodes))]

\* Lines 86-97 on the node p with the property prop of its first part.
expandWith(h, p, prop, strategy) ==
  pushExpanded(expandNestedPopulate(h, prop.type, Tail(h.nodes[p].field), strategy,
                                    h.nodes[p].all),
               p, strategy)

\* The body of populate.forEach in normalizePopulate (lines 86-97), on the node p.
expandDotted(h, entityName, p) ==
  IF Len(h.nodes[p].field) = 1 THEN h
  ELSE expandWith(withChildren(h, p), p, Prop(entityName, h.nodes[p].field[1]),
                  Coalesce(h.nodes[p].strategy,
                           Prop(entityName, h.nodes[p].field[1]).strategy))

expandDottedThrows(entityName, p) ==
  IF Len(p.field) <= 1 THEN FALSE
  ELSE IF ~HasProp(entityName, p.field[1]) THEN TRUE
  ELSE expandThrows(Prop(entityName, p.field[1]).type, Tail(p.field))

\* populate.forEach(...) of normalizePopulate over the nodes ids.
RECURSIVE expandEach(_, _, _)
expandEach(h, entityName, ids) ==
  IF ids = <<>> THEN h
  ELSE expandEach(expandDotted(h, entityName, Head(ids)), entityName, Tail(ids))

\* What ret[item.field] yields (line 108): the node stored under the field, a
\* member of Object.prototype, or nothing.
NoValue == [kind |-> "none", id |-> 0]

StoredNode(n) == [kind |-> "node", id |-> n]

Member(i) == [kind |-> "member", id |-> i]

\* The inherited property children, an array, read as ret['children'].
InheritedArray(a) == [kind |-> "array", id |-> a]

\* The field is a name of Object.prototype.
IsMember(field) == Len(field) = 1 /\ Contains(ObjectPrototype, field[1])

\* The field is an integer-like name (an array index).
IsIntegerKey(field) == Len(field) = 1 /\ IsArrayIndex(field[1])

\* ret[item.field]: tmp holds the nodes stored in ret, in the order they were
\* stored.  A field not stored is looked up in Object.prototype.
Kept(h, tmp, item) ==
  IF \E i \in DOMAIN tmp : h.nodes[tmp[i]].field = h.nodes[item].field
  THEN StoredNode(tmp[CHOOSE i \in DOMAIN tmp : h.nodes[tmp[i]].field = h.nodes[item].field])
  ELSE IF IsMember(h.nodes[item].field)
  THEN Member(IndexOf(ObjectPrototype, h.nodes[item].field[1]))
  ELSE IF h.nodes[item].field = <<"children">> /\ inheritedChildren(h) # 0
  THEN InheritedArray(inheritedChildren(h))
  ELSE NoValue

\* ret[item.field].children: the property of the node or of the member, or the
\* one it inherits.
keptChildren(h, kept) ==
  IF kept.kind = "node" THEN nodeChildren(h, kept.id)
  ELSE IF kept.kind = "member" /\ h.proto[kept.id] # 0 THEN h.proto[kept.id]
  ELSE inheritedChildren(h)

\* ret[item.field].children = item.children (line 114)
assignChildren(h, kept, children) ==
  IF kept.kind = "node" THEN [h EXCEPT !.nodes[kept.id].children = children]
  ELSE [h EXCEPT !.proto[kept.id] = children]

\* Lines 113-117: the node item meets what ret holds under its field.
mergeInto(h, kept, item) ==
  IF keptChildren(h, kept) = 0 /\ nodeChildren(h, item) # 0
  THEN assignChildren(h, kept, nodeChildren(h, item))
  ELSE IF keptChildren(h, kept) # 0 /\ nodeChildren(h, item) # 0
  THEN [h EXCEPT !.arrs[keptChildren(h, kept)] = @ \o h.arrs[nodeChildren(h, item)]]
  ELSE h

\* The reduce of lines 107-121 over the nodes items; tmp holds the nodes stored
\* in ret, in the order they were stored.
RECURSIVE mergeReduce(_, _, _)
mergeReduce(h, items, tmp) ==
  IF items = <<>> THEN [h |-> h, ids |-> tmp]
  ELSE IF Kept(h, tmp, Head(items)) = NoValue
  THEN mergeReduce(h, Tail(items), Append(tmp, Head(items)))
  ELSE mergeReduce(mergeInto(h, Kept(h, tmp, Head(items)), Head(items)), Tail(items), tmp)

\* The integer-like field of the node m stands for a smaller number than that
\* of the node n.
KeyBefore(h, m, n) == NumeralLess(h.nodes[m].field[1], h.nodes[n].field[1])

\* The nodes ids, all of integer-like fields, in ascending order of the numbers.
Ascend(h, ids) ==
  [i \in DOMAIN ids |->
     CHOOSE n \in Range(ids) :
       Cardinality({m \in Range(ids) : KeyBefore(h, m, n)}) = i - 1]

\* Object.values(tmp) (line 122): the nodes of the integer-like fields in
\* ascending order, then the other nodes in the order they were stored.
ObjectValues(h, tmp) ==
  Ascend(h, SelectSeq(tmp, LAMBDA n : IsIntegerKey(h.nodes[n].field)))
    \o SelectSeq(tmp, LAMBDA n : ~IsIntegerKey(h.nodes[n].field))

\* The array a recursion that does not end is given: the call stack overflows
\* (RangeError).
StackOverflow == -1

\* EntityLoader.mergeNestedPopulate: the nodes and arrays are changed in place,
\* the result is a new array.  merging holds the arrays the invocations in
\* progress were given: an invocation on one of them never returns.
RECURSIVE mergeNested(_, _, _)
RECURSIVE mergeChildren(_, _, _, _)
\* item.children = this.mergeNestedPopulate(item.children) (line 125)
mergedChildren(r, item) == [r.h EXCEPT !.nodes[item].children = r.arr]

\* The callback of line 122 has got r for the children of Head(ids).
mergeRest(r, ids, all, merging) ==
  IF r.arr = StackOverflow THEN r
  ELSE mergeChildren(mergedChildren(r, Head(ids)), Tail(ids), all, merging)

\* The map of lines 122-128 over the nodes ids that are left; all is its result.
mergeChildren(h, ids, all, merging) ==
  IF ids = <<>> THEN InNewArr([h |-> h, ids |-> all])
  ELSE IF nodeChildren(h, Head(ids)) = 0 THEN mergeChildren(h, Tail(ids), all, merging)
  ELSE mergeRest(mergeNested(h, nodeChildren(h, Head(ids)), merging), ids, all, merging)

mergeReduced(r, merging) ==
  mergeChildren(r.h, ObjectValues(r.h, r.ids), ObjectValues(r.h, r.ids), merging)

mergeNested(h, populate, merging) ==
  IF populate # 0 /\ populate \in merging THEN [h |-> h, arr |-> StackOverflow]
  ELSE mergeReduced(mergeReduce(h, ArrItems(h, populate), <<>>), merging \cup {populate})

mergeNestedPopulate(h, populate) == mergeNested(h, populate, {})

\* populate === true || populate.some(p => p.all) (line 75)
isAll(h, ref) ==
  ref.isTrue \/ \E i \in DOMAIN ArrItems(h, ref.arr) : h.nodes[ArrItems(h, ref.arr)[i]].all

\* Lines 75-79 of normalizePopulate: the array it goes on with.
allOrArray(h, entityName, ref) ==
  IF isAll(h, ref) THEN AllocArr(h, lookupAllRelationships(entityName))
  ELSE [h |-> h, arr |-> ref.arr]

\* Lines 81-83 of normalizePopulate: the eager relations are looked up.
withEagerLoaded(r, entityName, strategy, lookup) ==
  IF lookup THEN lookupEagerLoadedRelationships(r.h, entityName, r.arr, strategy, <<>>, <<>>)
  ELSE r

\* The array normalizePopulate works on after lines 75-83.
normalizeLookup(h, entityName, ref, strategy, lookup) ==
  withEagerLoaded(allOrArray(h, entityName, ref), entityName, strategy, lookup)

\* Lines 86-97 of normalizePopulate on the array r.arr.
expanded(r, entityName) ==
  [h |-> expandEach(r.h, entityName, ArrItems(r.h, r.arr)), arr |-> r.arr]

\* Line 100 of normalizePopulate.
merged(r) == mergeNestedPopulate(r.h, r.arr)

\* Whether the forEach of normalizePopulate dereferences an undefined property,
\* on the nodes ids.
anyExpandThrows(entityName, h, ids) ==
  \E i \in DOMAIN ids : expandDottedThrows(entityName, h.nodes[ids[i]])

\* Whether the forEach of lines 86-97 throws on the array r.arr.
expandedThrows(r, entityName) == anyExpandThrows(entityName, r.h, ArrItems(r.h, r.arr))

\* The nodes after lines 75-83, as values.
lookedUp(r) == ReadArr(r.h, r.arr)

\* Whether normalizePopulate ends in a TypeError (an undefined metadata or
\* property dereferenced), on the request ref.
normalizeThrowsIn(h, entityName, ref, strategy, lookup) ==
  IF isAll(h, ref) /\ ~HasMeta(entityName) THEN TRUE
  ELSE expandedThrows(normalizeLookup(h, entityName, ref, strategy, lookup), entityName)

\* Lines 92-95 on the node p when the forEach throws at it: its field and its
\* children are set, its strategy as well when the property exists.
thrownAt(h, entityName, p) ==
  [h EXCEPT !.nodes[p].field = <<@[1]>>,
            !.nodes[p].strategy =
              IF HasProp(entityName, h.nodes[p].field[1])
              THEN Coalesce(@, Prop(entityName, h.nodes[p].field[1]).strategy) ELSE @]

\* The forEach of normalizePopulate over the nodes ids, up to the node it throws at.
RECURSIVE expandUntilThrow(_, _, _)
expandUntilThrow(h, entityName, ids) ==
  IF ids = <<>> THEN h
  ELSE IF expandDottedThrows(entityName, h.nodes[Head(ids)])
  THEN thrownAt(withChildren(h, Head(ids)), entityName, Head(ids))
  ELSE expandUntilThrow(expandDotted(h, entityName, Head(ids)), entityName, Tail(ids))

expandedUntilThrow(r, entityName) == expandUntilThrow(r.h, entityName, ArrItems(r.h, r.arr))

\* The objects normalizePopulate leaves when it ends in a TypeError.
normalizeThrown(h, entityName, ref, strategy, lookup) ==
  IF isAll(h, ref) /\ ~HasMeta(entityName) THEN h
  ELSE expandedUntilThrow(normalizeLookup(h, entityName, ref, strategy, lookup), entityName)

\* EntityLoader.normalizePopulate on the request ref: the objects after it, and
\* the array it returns.
normalizePopulate(h, entityName, ref, strategy, lookup) ==
  merged(expanded(normalizeLookup(h, entityName, ref, strategy, lookup), entityName))

(***************************************************************************)
(* The normalizer on requests given as values: the caller builds the       *)
(* objects of the request, and the result is read as a tree.               *)
(***************************************************************************)
NormalizedOf(a, entityName, strategy, lookup) ==
  lookedUp(normalizePopulate(a.h, entityName, a.ref, strategy, lookup))

\* The tree normalizePopulate returns for the request.
Normalized(entityName, request, strategy, lookup) ==
  NormalizedOf(AllocRequest(NoObjects, request), entityName, strategy, lookup)

RequestAfterOf(a, r) == ReadRequest(r.h, a.ref)

RequestAfter(a, entityName, strategy, lookup) ==
  RequestAfterOf(a, normalizePopulate(a.h, entityName, a.ref, strategy, lookup))

\* The request of the caller, changed in place, after normalizePopulate.
NormalizedRequest(entityName, request, strategy, lookup) ==
  RequestAfter(AllocRequest(NoObjects, request), entityName, strategy, lookup)

RequestThrownOf(a, entityName, strategy, lookup) ==
  ReadRequest(normalizeThrown(a.h, entityName, a.ref, strategy, lookup), a.ref)

\* The request of the caller after normalizePopulate has ended in a TypeError.
RequestThrown(entityName, request, strategy, lookup) ==
  RequestThrownOf(AllocRequest(NoObjects, request), entityName, strategy, lookup)

LookedUpOf(a, entityName, strategy, lookup) ==
  lookedUp(normalizeLookup(a.h, entityName, a.ref, strategy, lookup))

\* The nodes normalizePopulate works on after lines 75-83.
LookedUp(entityName, request, strategy, lookup) ==
  LookedUpOf(AllocRequest(NoObjects, request), entityName, strategy, lookup)

ExpandedOf(a, entityName, strategy, lookup) ==
  lookedUp(expanded(normalizeLookup(a.h, entityName, a.ref, strategy, lookup), entityName))

\* The nodes normalizePopulate hands to mergeNestedPopulate (after line 97).
ExpandedNodes(entityName, request, strategy, lookup) ==
  ExpandedOf(AllocRequest(NoObjects, request), entityName, strategy, lookup)

\* Lines 86-100 of normalizePopulate on nodes given as values.
ExpandedAndMerged(entityName, list) ==
  lookedUp(merged(expanded(AllocArr(NoObjects, list), entityName)))

\* Whether normalizePopulate ends in a TypeError on the request.
normalizeThrowsOf(a, entityName, strategy, lookup) ==
  normalizeThrowsIn(a.h, entityName, a.ref, strategy, lookup)

normalizeThrows(entityName, request, strategy, lookup) ==
  normalizeThrowsOf(AllocRequest(NoObjects, request), entityName, strategy, lookup)

\* Whether the merge of normalizePopulate overflows the call stack on the request.
normalizeOverflowsOf(a, entityName, strategy, lookup) ==
  normalizePopulate(a.h, entityName, a.ref, strategy, lookup).arr = StackOverflow

normalizeOverflows(entityName, request, strategy, lookup) ==
  normalizeOverflowsOf(AllocRequest(NoObjects, request), entityName, strategy, lookup)


(***************************************************************************)
(* The store.  Users and access profiles have the rows 1..MaxPk, and there *)
(* is one permission more than that, the three the test persists.          *)
(*   fk[<<type, field>>][pk]  the foreign key an owning to-one field holds *)
(*                            in row pk (0: null)                          *)
(*   pivot[pk]                the permissions linked to access profile pk, *)
(*                            in the order the pivot table returns them    *)
(***************************************************************************)
\* platform.usesPivotTable(): the SQL platforms keep a many-to-many relation in
\* a bridge table, a document store keeps it as an array of keys in the row of
\* the owning side.
usesPivotTable == cfg.usesPivotTable

Pks == 1..MaxPk

PermissionPks == 1..(MaxPk + 1)

\* The primary keys of the rows of the type t.
KeysOf(t) == IF t = "Permission" THEN PermissionPks ELSE Pks

OwningToOne == {<<"User", "accessProfile">>, <<"UserAccessProfile", "owner">>}

\* The rows of the test: user 1 with access profile 1, which has the
\* permissions 1, 2 and 3.  Added to them: the other users, the first of them
\* with access profile 1 as well, the other profiles, the second of them with
\* two of the permissions in an order of its own, and the owner of profile 1.
InitDb ==
  [fk |-> [tf \in OwningToOne |->
             IF tf = <<"User", "accessProfile">>
             THEN [u \in Pks |-> IF u <= 2 THEN 1 ELSE u - 1]
             ELSE [p \in Pks |-> IF p = 1 THEN 2 ELSE 0]],
   pivot |-> [p \in Pks |-> IF p = 1 THEN <<1, 2, 3>> ELSE IF p = 2 THEN <<3, 1>> ELSE <<>>],
   gone |-> {}]

\* The permission another unit of work deletes.
Deleted == 3

\* The writes other units of work make between two populate calls: a user
\* changes its profile, a profile loses permissions, and, in a document store,
\* a profile loses all its permissions, or a permission is deleted while the
\* arrays of the profiles keep its key.
DbWrites(d) ==
  ({ [d EXCEPT !.fk[<<"User", "accessProfile">>][2] = 2],
     [d EXCEPT !.pivot[1] = <<1>>] }
   \cup (IF usesPivotTable THEN {}
         ELSE { [d EXCEPT !.gone = {Deleted}], [d EXCEPT !.pivot[1] = <<>>] })) \ {d}

\* The primary keys of the rows of the type t that the store holds.
StoredKeys(t) == IF t = "Permission" THEN PermissionPks \ db.gone ELSE KeysOf(t)

\* The least number of a non-empty sequence of numbers.
Least(seq) == CHOOSE x \in Range(seq) : \A y \in Range(seq) : x <= y

FkValue(t, f, pk) == db.fk[<<t, f>>][pk]

\* The ascending sequence of the numbers of S.
RECURSIVE Ascending(_)
Ascending(S) ==
  IF S = {} THEN <<>>
  ELSE LET m == CHOOSE x \in S : \A y \in S : x <= y
       IN <<m>> \o Ascending(S \ {m})

\* The rows of `type` whose column `key` is in ids, ordered by that column and
\* then by primary key (orderBy: [..., { [fk]: ASC }]).
FindRows(type, key, ids) ==
  IF key = "id" THEN Ascending({pk \in StoredKeys(type) : Contains(ids, pk)})
  ELSE IF <<type, key>> \in OwningToOne
  THEN LET hit == {pk \in StoredKeys(type) : Contains(ids, FkValue(type, key, pk))}
       IN Flatten([v \in 1..MaxPk |-> Ascending({pk \in hit : FkValue(type, key, pk) = v})])
  ELSE \* the array of keys of a document store: a row matches when its array
       \* holds one of the ids, and the rows are ordered by the least key of
       \* their arrays
       LET hit == {pk \in StoredKeys(type) : \E i \in DOMAIN ids : Contains(db.pivot[pk], ids[i])}
       IN Flatten([v \in 1..(MaxPk + 1) |->
                     Ascending({pk \in hit : Least(db.pivot[pk]) = v})])

\* The raw rows the pivot fetch returns for one parent key.
PivotRows(prop, pk) ==
  IF prop.owner THEN db.pivot[pk]
  ELSE Ascending({p \in Pks : Contains(db.pivot[p], pk)})

(***************************************************************************)
(* Entity instances.  An instance is identified by its type, its primary   *)
(* key and a copy number: the identity map holds copy 0 of a key, and any  *)
(* other copy is a duplicate.  Primary key 0 is an object that is not an   *)
(* entity of the identity map (no __helper).                               *)
(***************************************************************************)
Inst(t, k) == [t |-> t, k |-> k, n |-> 0]

Plain(t) == [t |-> t, k |-> 0, n |-> 0]

HasHelper(e) == e.k # 0

SlotUndefined == [tag |-> "undefined"]
SlotNull == [tag |-> "null"]
SlotValue == [tag |-> "value"]
\* The primary key a property declared mapToPk holds instead of a reference.
SlotPk(k) == [tag |-> "pk", k |-> k]
SlotEntity(i) == [tag |-> "entity", to |-> i]
SlotCollection(initialized, items, populated) ==
  [tag |-> "collection", initialized |-> initialized, items |-> items, populated |-> populated]

\* The names of the relations and lazy scalars of the list d.
SlotNamesOf(d) == {d[i].name : i \in {j \in DOMAIN d : d[j].reference # SCALAR \/ d[j].lazy}}

SlotNames(t) == SlotNamesOf(PropDefs(t))


\* A reference to a row that was not loaded: only the primary key is known.
Stub(t) ==
  [initialized |-> FALSE, populated |-> FALSE, ser |-> FALSE,
   slots |-> [f \in SlotNames(t) |-> SlotUndefined]]

Slot(es, e, f) == IF e \in DOMAIN es /\ f \in DOMAIN es[e].slots THEN es[e].slots[f] ELSE SlotUndefined

\* Utils.isEntity(value, true)
IsEntitySlot(v) == v.tag = "entity"

\* Utils.isCollection(value)
IsCollectionSlot(v) == v.tag = "collection"

\* JavaScript truthiness of a slot value.
Truthy(v) == v.tag \in {"entity", "collection", "value", "pk"}

\* The row of the owning side that points at row pk of the inverse side (0: none).
OwnerRowOf(prop, pk) ==
  LET rows == {r \in Pks : FkValue(prop.type, prop.mappedBy, r) = pk}
  IN IF rows = {} THEN 0 ELSE CHOOSE r \in rows : \A q \in rows : r <= q

\* The slot of property prop of type t in a freshly hydrated row; old is the
\* value it had.
LoadedSlotOf(prop, t, pk, old) ==
  CASE prop.reference = SCALAR -> IF old.tag = "value" THEN old ELSE SlotUndefined
    [] prop.reference = MANY_TO_MANY /\ prop.owner /\ ~usesPivotTable ->
         \* the row holds the keys: a new collection of references to them
         SlotCollection(TRUE, [i \in DOMAIN db.pivot[pk] |-> Inst(prop.type, db.pivot[pk][i])],
                        FALSE)
    [] prop.reference \in {ONE_TO_MANY, MANY_TO_MANY} ->
         IF old.tag = "collection" THEN old ELSE SlotCollection(FALSE, <<>>, FALSE)
    [] prop.reference \in {MANY_TO_ONE, ONE_TO_ONE} /\ prop.owner ->
         IF FkValue(t, prop.name, pk) = 0 THEN SlotNull
         ELSE IF prop.mapToPk THEN SlotPk(FkValue(t, prop.name, pk))
         ELSE SlotEntity(Inst(prop.type, FkValue(t, prop.name, pk)))
    [] OTHER -> \* the inverse side of a one-to-one
         IF ~cfg.autoJoinOneToOneOwner THEN old
         ELSE IF OwnerRowOf(prop, pk) = 0 THEN SlotNull
         ELSE SlotEntity(Inst(prop.type, OwnerRowOf(prop, pk)))

\* The slot of property f in a freshly hydrated row; old is the value it had.
LoadedSlot(t, f, pk, old) == LoadedSlotOf(Prop(t, f), t, pk, old)

\* The instances the slots of e refer to, and the items of its collections.
Targets(es, e) ==
  {es[e].slots[f].to : f \in {g \in DOMAIN es[e].slots : es[e].slots[g].tag = "entity"}}
    \cup UNION {Range(es[e].slots[f].items) :
                  f \in {g \in DOMAIN es[e].slots : es[e].slots[g].tag = "collection"}}

\* Every referenced instance exists, as a stub when it was not known.
WithStubs(es, e) ==
  LET missing == Targets(es, e) \ DOMAIN es
  IN [i \in DOMAIN es \cup missing |-> IF i \in DOMAIN es THEN es[i] ELSE Stub(i.t)]

\* The entity factory links the inverse side of a one-to-one when it hydrates
\* the owning side.
Propagated(es, e) ==
  LET owning == {f \in DOMAIN es[e].slots :
                   /\ es[e].slots[f].tag = "entity"
                   /\ \E p \in {Prop(e.t, f)} : p.reference = ONE_TO_ONE /\ p.owner}
      inverseOf(i, g) == \E f \in owning, p \in {Prop(i.t, g)} :
                           /\ es[e].slots[f].to = i
                           /\ p.reference = ONE_TO_ONE
                           /\ ~p.owner
                           /\ p.mappedBy = f /\ p.type = e.t
  IN [i \in DOMAIN es |->
        [es[i] EXCEPT !.slots = [g \in DOMAIN @ |-> IF inverseOf(i, g) THEN SlotEntity(e) ELSE @[g]]]]

\* The instance e hydrated from its row (created, initialized or refreshed).
Hydrated(es, e) ==
  LET old == IF e \in DOMAIN es THEN es[e] ELSE Stub(e.t)
      new == [old EXCEPT !.initialized = TRUE,
                         !.slots = [f \in DOMAIN @ |-> LoadedSlot(e.t, f, e.k, @[f])]]
      es1 == [i \in DOMAIN es \cup {e} |-> IF i = e THEN new ELSE es[i]]
  IN Propagated(WithStubs(es1, e), e)

\* EntityFactory.create with merge: the canonical instance of the key is reused
\* when the identity map holds one; without merge a new instance is made.
Created(es, t, pk, merge) ==
  IF merge \/ Inst(t, pk) \notin DOMAIN es THEN Inst(t, pk)
  ELSE [t |-> t, k |-> pk, n |-> Cardinality({i \in DOMAIN es : i.t = t /\ i.k = pk})]

\* One row merged into the identity map: an unknown or uninitialized instance is
\* hydrated, a loaded one only on refresh.
MergedRow(es, e, refresh) ==
  IF e \in DOMAIN es /\ es[e].initialized /\ ~refresh THEN es ELSE Hydrated(es, e)

RECURSIVE MergedRows(_, _, _)
MergedRows(es, insts, refresh) ==
  IF insts = <<>> THEN es
  ELSE MergedRows(MergedRow(es, Head(insts), refresh), Tail(insts), refresh)

\* Collection.hydrate: the contents are replaced and the collection is initialized.
hydrate(es, e, f, items) ==
  [es EXCEPT ![e].slots[f] = SlotCollection(TRUE, items, @.populated)]

\* The lazy scalar f of the rows is loaded.
WithScalar(es, insts, f) ==
  [i \in DOMAIN es |-> IF Contains(insts, i) THEN [es[i] EXCEPT !.slots[f] = SlotValue] ELSE es[i]]

(***************************************************************************)
(* The relationship resolver: which parents need work, and the batch key.  *)
(***************************************************************************)
\* Collection.isInitialized(fully): the collection is initialized and, when
\* fully is set, so is every item of it.
isInitialized(es, v, fully) ==
  /\ v.initialized
  /\ fully => \A i \in DOMAIN v.items : es[v.items[i]].initialized

\* filterCollections that selects every collection, loaded or not.
filterCollectionsAlways(es, entities, field, refresh) ==
  SelectSeq(entities, LAMBDA e : Truthy(Slot(es, e, field)))

\* EntityLoader.filterCollections
filterCollections(es, entities, field, refresh) ==
  IF refresh THEN SelectSeq(entities, LAMBDA e : Truthy(Slot(es, e, field)))
  ELSE SelectSeq(entities, LAMBDA e : /\ IsCollectionSlot(Slot(es, e, field))
                                      /\ ~isInitialized(es, Slot(es, e, field), TRUE))

\* filterReferences that keeps the references that are already loaded.
filterReferencesAll(es, entities, field, refresh) ==
  [i \in DOMAIN SelectSeq(entities, LAMBDA e : IsEntitySlot(Slot(es, e, field))) |->
     Slot(es, SelectSeq(entities, LAMBDA e : IsEntitySlot(Slot(es, e, field)))[i], field).to]

\* EntityLoader.filterReferences
filterReferences(es, entities, field, refresh) ==
  LET children == SelectSeq(entities, LAMBDA e : IsEntitySlot(Slot(es, e, field)))
      kept == IF refresh THEN children
              ELSE SelectSeq(children, LAMBDA e : ~es[Slot(es, e, field).to].initialized)
  IN [i \in DOMAIN kept |-> Slot(es, kept[i], field).to]

\* EntityLoader.filterByReferences
filterByReferences(es, entities, field, refresh) ==
  IF refresh THEN entities
  ELSE SelectSeq(entities, LAMBDA e : ~(/\ IsEntitySlot(Slot(es, e, field))
                                        /\ es[Slot(es, e, field).to].initialized))

\* The items of the collections in the slots `field` of the entities.
ItemsOf(es, entities, field) ==
  Flatten([i \in DOMAIN entities |->
             IF IsCollectionSlot(Slot(es, entities[i], field))
             THEN Slot(es, entities[i], field).items ELSE <<>>])

\* EntityLoader.getChildReferences
getChildReferences(es, entities, prop, refresh) ==
  LET filtered == filterCollections(es, entities, prop.name, refresh)
  IN CASE prop.reference = ONE_TO_MANY -> filtered
       [] prop.reference = MANY_TO_MANY /\ prop.owner -> ItemsOf(es, filtered, prop.name)
       [] prop.reference = MANY_TO_MANY -> filtered
       [] OTHER -> filterReferences(es, entities, prop.name, refresh)

PrimaryKeys(insts) == [i \in DOMAIN insts |-> insts[i].k]

\* A batched fetch: em.find (kind "find") or driver.loadFromPivotTable (kind "pivot").
Fetch(kind, type, key, ids, fields, populate, path) ==
  [kind |-> kind, type |-> type, key |-> key, ids |-> ids, fields |-> fields,
   populate |-> populate, path |-> path, done |-> FALSE, rows |-> <<>>, returned |-> <<>>]

NoFetch == [kind |-> "none"]

\* populate: true of em.find
PopulateAll == [def |-> FALSE, list |-> <<>>, all |-> TRUE]

\* populate.children ?? populate.all ?? [] (line 264)
childrenOrAll(populate) ==
  IF populate.children.def THEN populate.children
  ELSE IF populate.all THEN PopulateAll
  ELSE NoChildren

\* findChildren without batching: the fetch asks for the first child only, so
\* that one fetch per parent would be needed.
findChildrenUnbatched(es, entities, prop, populate, refresh, path) ==
  LET inverseKey == prop.reference = ONE_TO_MANY \/ (prop.reference = MANY_TO_MANY /\ ~prop.owner)
      deferred == /\ prop.reference = ONE_TO_ONE /\ ~prop.owner
                  /\ populate.strategy # JOINED /\ ~cfg.autoJoinOneToOneOwner
      fk == IF inverseKey \/ deferred THEN prop.mappedBy ELSE "id"
      children == IF deferred THEN filterByReferences(es, entities, prop.name, refresh)
                  ELSE getChildReferences(es, entities, prop, refresh)
  IN IF Len(children) = 0 THEN NoFetch
     ELSE Fetch("find", prop.type, fk, <<Head(children).k>>, "", childrenOrAll(populate), path)

\* findChildren that takes the deferred branch of the inverse side of a one-to-one
\* whatever the strategy of the node is.
findChildrenAnyStrategy(es, entities, prop, populate, refresh, path) ==
  LET inverseKey == prop.reference = ONE_TO_MANY \/ (prop.reference = MANY_TO_MANY /\ ~prop.owner)
      deferred == prop.reference = ONE_TO_ONE /\ ~prop.owner /\ ~cfg.autoJoinOneToOneOwner
      fk == IF inverseKey \/ deferred THEN prop.mappedBy ELSE "id"
      children == IF deferred THEN filterByReferences(es, entities, prop.name, refresh)
                  ELSE getChildReferences(es, entities, prop, refresh)
      ids == Unique(PrimaryKeys(children))
  IN IF Len(children) = 0 THEN NoFetch
     ELSE Fetch("find", prop.type, fk, ids, "", childrenOrAll(populate), path)

\* EntityLoader.findChildren, up to the em.find it issues (NoFetch: it returns []).
findChildren(es, entities, prop, populate, refresh, path) ==
  LET inverseKey == prop.reference = ONE_TO_MANY \/ (prop.reference = MANY_TO_MANY /\ ~prop.owner)
      deferred == /\ prop.reference = ONE_TO_ONE /\ ~prop.owner
                  /\ populate.strategy # JOINED /\ ~cfg.autoJoinOneToOneOwner
      fk == IF inverseKey \/ deferred THEN prop.mappedBy ELSE "id"
      children == IF deferred THEN filterByReferences(es, entities, prop.name, refresh)
                  ELSE getChildReferences(es, entities, prop, refresh)
      ids == Unique(PrimaryKeys(children))
  IN IF Len(children) = 0 THEN NoFetch
     ELSE Fetch("find", prop.type, fk, ids, "", childrenOrAll(populate), path)

\* EntityLoader.findChildrenFromPivotTable, up to the driver call it always makes.
findChildrenFromPivotTable(filtered, prop, populate, path) ==
  Fetch("pivot", prop.type, prop.name, PrimaryKeys(filtered), "", populate.children, path)

\* The lazy scalar branch of populateMany (lines 155-174).
lazyScalarFetch(es, entityName, entities, prop, opts, path) ==
  LET filtered == SelectSeq(entities, LAMBDA e : opts.refresh \/ Slot(es, e, prop.name).tag = "undefined")
  IN IF opts.ignoreLazyScalarProperties \/ Len(filtered) = 0 THEN NoFetch
     ELSE Fetch("find", entityName, "id", Unique(PrimaryKeys(filtered)), prop.name, NoChildren, path)

\* The "set populate flag" loop of populateMany (lines 181-189).
RECURSIVE setPopulated(_, _, _)
setPopulated(es, entities, field) ==
  IF entities = <<>> THEN es
  ELSE LET e == Head(entities)
           v == Slot(es, e, field)
           es1 == IF IsEntitySlot(v) THEN [es EXCEPT ![v.to].populated = TRUE]
                  ELSE IF IsCollectionSlot(v) THEN [es EXCEPT ![e].slots[field].populated = TRUE]
                  ELSE es
       IN setPopulated(es1, Tail(entities), field)

\* initializeOneToMany that gives every parent all the children fetched.
initializeOneToManyAll(es, filtered, children, prop) ==
  [i \in DOMAIN es |->
     IF Contains(filtered, i)
     THEN [es[i] EXCEPT !.slots[prop.name] = SlotCollection(TRUE, children, @.populated)]
     ELSE es[i]]

\* The filter of lines 219-225: whether the inverse field of the child refers to
\* the entity, by primary key when it is declared mapToPk, by identity otherwise.
refersTo(es, child, prop, entity) ==
  IF Prop(prop.type, prop.mappedBy).mapToPk
  THEN Slot(es, child, prop.mappedBy) = SlotPk(entity.k)
  ELSE Slot(es, child, prop.mappedBy) = SlotEntity(entity)

\* EntityLoader.initializeOneToMany
RECURSIVE initializeOneToMany(_, _, _, _)
initializeOneToMany(es, filtered, children, prop) ==
  IF filtered = <<>> THEN es
  ELSE LET entity == Head(filtered)
           items == SelectSeq(children, LAMBDA child : refersTo(es, child, prop, entity))
       IN initializeOneToMany(hydrate(es, entity, prop.name, items), Tail(filtered), children, prop)

\* EntityLoader.initializeManyToMany
RECURSIVE initializeManyToMany(_, _, _, _)
initializeManyToMany(es, filtered, children, prop) ==
  IF filtered = <<>> THEN es
  ELSE LET entity == Head(filtered)
           items == SelectSeq(children,
                              LAMBDA child : /\ IsCollectionSlot(Slot(es, child, prop.mappedBy))
                                             /\ Contains(Slot(es, child, prop.mappedBy).items, entity))
       IN initializeManyToMany(hydrate(es, entity, prop.name, items), Tail(filtered), children, prop)

\* EntityLoader.initializeCollections
initializeCollections(es, filtered, prop, children) ==
  LET es1 == IF prop.reference = ONE_TO_MANY
             THEN initializeOneToMany(es, filtered, children, prop) ELSE es
  IN IF prop.reference = MANY_TO_MANY /\ ~prop.owner /\ ~usesPivotTable
     THEN initializeManyToMany(es1, filtered, children, prop) ELSE es1

\* The pivot path creating its children without merging them into the identity map.
pivotMergeOff == FALSE

\* The merge flag findChildrenFromPivotTable hands to the entity factory.
pivotMerge == TRUE

\* The loop of findChildrenFromPivotTable over the parents (lines 348-360): rows
\* is the map the driver returned, as one list of raw rows per parent.
\* The item of one raw row is created and merged (lines 350-357); acc is the
\* identity map and the items made so far.
createPivotItem(acc, type, pk, refresh) ==
  [es |-> MergedRow(acc.es, Created(acc.es, type, pk, pivotMerge), refresh),
   items |-> Append(acc.items, Created(acc.es, type, pk, pivotMerge))]

\* The items of the raw rows of one parent, in order.
RECURSIVE createPivotItems(_, _, _, _)
createPivotItems(acc, type, raw, refresh) ==
  IF raw = <<>> THEN acc
  ELSE createPivotItems(createPivotItem(acc, type, Head(raw), refresh), type, Tail(raw), refresh)

\* The pivot path putting the items of a parent in primary-key order before it
\* hydrates the collection.
hydrateItemsSorted(made, entity, field) ==
  hydrate(made.es, entity, field,
          [i \in DOMAIN made.items |->
             [made.items[i] EXCEPT !.k = Ascending({made.items[j].k : j \in DOMAIN made.items})[i]]])

\* Line 359: the collection of the parent is hydrated with the items made.
hydrateItems(made, entity, field) == hydrate(made.es, entity, field, made.items)

RECURSIVE attachPivotRows(_, _, _, _, _)
attachPivotRows(es, filtered, rows, prop, refresh) ==
  IF filtered = <<>> THEN es
  ELSE attachPivotRows(
         hydrateItems(createPivotItems([es |-> es, items |-> <<>>], prop.type, Head(rows), refresh),
                      Head(filtered), prop.name),
         Tail(filtered), Tail(rows), prop, refresh)

\* The list findChildrenFromPivotTable returns (lines 346, 360, 362): the items
\* of every parent, pushed parent after parent.
RECURSIVE pivotChildren(_, _, _, _, _)
RECURSIVE pivotChildrenFrom(_, _, _, _, _)
pivotChildrenFrom(made, filtered, rows, prop, refresh) ==
  made.items \o pivotChildren(hydrateItems(made, Head(filtered), prop.name),
                              Tail(filtered), Tail(rows), prop, refresh)

pivotChildren(es, filtered, rows, prop, refresh) ==
  IF filtered = <<>> THEN <<>>
  ELSE pivotChildrenFrom(createPivotItems([es |-> es, items |-> <<>>], prop.type, Head(rows), refresh),
                         filtered, rows, prop, refresh)

\* The entities and collection items found in the slots of the parents
\* (populateField, lines 295-309).
childrenOf(es, entities, field) ==
  Unique(Flatten([i \in DOMAIN entities |->
    LET v == Slot(es, entities[i], field)
    IN IF IsEntitySlot(v) THEN <<v.to>>
       ELSE IF IsCollectionSlot(v) THEN v.items
       ELSE <<>>]))

(***************************************************************************)
(* The recursive orchestrator.  populate() runs without suspending up to   *)
(* its first await; every await is a suspension point, whether a fetch     *)
(* stands behind it or not, and what a method has computed before an await *)
(* it keeps across it.  The recursion of populate -> populateField ->      *)
(* populate is kept as a stack of frames, one per populate() invocation,   *)
(* each with the populate nodes its for-loop has still to visit.           *)
(***************************************************************************)

Options(refresh, validate, lookup, ignoreLazy) ==
  [refresh |-> refresh, validate |-> validate, lookup |-> lookup, strategy |-> Undefined,
   ignoreLazyScalarProperties |-> ignoreLazy, schema |-> Undefined]

\* The options populateField hands to the nested populate (lines 316-327).
nestedOptions(opts) ==
  [refresh |-> opts.refresh, validate |-> FALSE, lookup |-> FALSE, strategy |-> Undefined,
   ignoreLazyScalarProperties |-> opts.ignoreLazyScalarProperties, schema |-> Undefined]

\* Utils.isEmpty(populate): false and [] are empty, true is not.
isEmpty(h, ref) == ~ref.isTrue /\ ArrItems(h, ref.arr) = <<>>

\* The guard of line 42 without its test of the populate spec.
isNoopEntitiesOnly(entities, empty) == entities = <<>>

\* The guard of the early return of populate (line 42); empty is what
\* Utils.isEmpty(populate) yields.
isNoop(entities, empty) == entities = <<>> \/ empty

\* The check of line 46 looking at the first entity only.
hasUndiscoveredFirst(entities) == ~HasHelper(entities[1])

\* entities.some(e => !e.__helper) (line 46)
hasUndiscovered(entities) == \E i \in DOMAIN entities : ~HasHelper(entities[i])

\* em.canPopulate: the field exists on the metadata of the entity.
canPopulate(entityName, field) == HasProp(entityName, field[1])

\* Line 67: the normalized spec is cached on every root entity that has none.
RECURSIVE setSerializationContext(_, _, _)
setSerializationContext(es, entities, populate) ==
  IF entities = <<>> THEN es
  ELSE LET e == Head(entities)
           es1 == IF ~es[e].ser THEN [es EXCEPT ![e].ser = TRUE] ELSE es
       IN setSerializationContext(es1, Tail(entities), populate)

Frame(entityName, entities, pops, opts, path) ==
  [entityName |-> entityName, entities |-> entities, pops |-> pops, opts |-> opts, path |-> path]

Failure(h, error, field, normalized) ==
  [kind |-> "error", h |-> h, error |-> error, field |-> field, normalized |-> normalized]

\* populate.find(field => !this.em.canPopulate(entityName, field.field)) (line 60)
findInvalid(entityName, populate) ==
  populate[CHOOSE i \in DOMAIN populate :
             /\ ~canPopulate(entityName, populate[i].field)
             /\ \A j \in 1..(i - 1) : canPopulate(entityName, populate[j].field)]

\* Lines 60-67 of populate; r holds the objects after normalizePopulate and the
\* array it returned, normalized the nodes of that array.
populateNormalized(es, r, entityName, entities, normalized, opts, path) ==
  IF opts.validate /\ \E i \in DOMAIN normalized : ~canPopulate(entityName, normalized[i].field)
  THEN Failure(r.h, InvalidPropertyName, findInvalid(entityName, normalized).field, TRUE)
  ELSE IF \E i \in DOMAIN entities : ~HasHelper(entities[i])
  THEN Failure(r.h, TypeError, <<>>, TRUE) \* line 67 dereferences e.__helper
  ELSE [kind |-> "frame", normalized |-> TRUE, h |-> r.h,
        es |-> setSerializationContext(es, entities, normalized),
        frame |-> Frame(entityName, entities, ArrItems(r.h, r.arr), opts, path)]

\* Lines 59-67 of populate: normalizePopulate has come to r, or the recursion
\* of its merge has overflowed the call stack.
populateWith(es, r, entityName, entities, opts, path) ==
  IF r.arr = StackOverflow THEN Failure(r.h, RangeError, <<>>, TRUE)
  ELSE populateNormalized(es, r, entityName, entities, lookedUp(r), opts, path)

\* EntityLoader.populate, lines 41-67, on the objects h and the request ref: it
\* returns at once, throws, or enters its for-loop over the normalized nodes.
populate(es, h, entityName, entities, ref, opts, path) ==
  IF isNoop(entities, isEmpty(h, ref)) THEN [kind |-> "return", h |-> h, normalized |-> FALSE]
  ELSE IF hasUndiscovered(entities) THEN Failure(h, NotDiscoveredEntity, <<>>, FALSE)
  ELSE IF normalizeThrowsIn(h, entityName, ref, opts.strategy, opts.lookup)
  THEN Failure(normalizeThrown(h, entityName, ref, opts.strategy, opts.lookup),
               TypeError, <<>>, TRUE)
  ELSE populateWith(es, normalizePopulate(h, entityName, ref, opts.strategy, opts.lookup),
                    entityName, entities, opts, path)

\* What populateField and populateMany keep across their awaits: the frame and
\* the node they work on, the parents populateMany selected (line 191), whether
\* a fetch was issued, what the awaited call returned, and the children
\* populateField collected (lines 295-309).
Pending(f, pop, filtered) ==
  [frame |-> f, pop |-> pop, filtered |-> filtered, fetched |-> FALSE, data |-> <<>>,
   children |-> <<>>]

\* What a turn of the orchestrator leads to: the for-loop of a frame goes on
\* ("next"), the call has thrown ("error"), or it is suspended at an await.
Next_(es, h, stack) == [kind |-> "next", es |-> es, h |-> h, stack |-> stack]

Thrown(es, h, stack, error) ==
  [kind |-> "error", es |-> es, h |-> h, stack |-> stack, error |-> error]

\* The call is suspended at an await that no fetch stands behind:
\*   "where"      await this.extractChildCondition (lines 200 and 333)
\*   "rows"       the awaited findChildren or driver call has its result
\*                (lines 167, 201 and 345)
\*   "populated"  await this.populateMany (lines 291 and 294)
\*   "children"   await this.extractChildCondition (line 317)
Suspended(kind, es, h, stack, pending) ==
  [kind |-> kind, es |-> es, h |-> h, stack |-> stack, pending |-> pending]

\* The call is suspended behind the fetch it has issued.
Awaiting(es, h, stack, fetch, pending) ==
  [kind |-> "await", es |-> es, h |-> h, stack |-> stack, fetch |-> fetch,
   pending |-> [pending EXCEPT !.fetched = TRUE]]

\* The node n as populateField reads it; id keeps which node it is.
ReadPop(h, n) ==
  [id |-> n, field |-> h.nodes[n].field, strategy |-> h.nodes[n].strategy, all |-> h.nodes[n].all,
   children |-> IF nodeChildren(h, n) = 0 THEN NoChildren
                ELSE Children(ReadArr(h, nodeChildren(h, n)))]

\* The lazy scalar branch of populateMany (lines 155-174): em.find is called at
\* once, or populateMany returns the entities.
populateManyScalar(es, h, stack, f, pop, prop, fetch) ==
  IF fetch = NoFetch THEN Suspended("populated", es, h, stack, Pending(f, pop, <<>>))
  ELSE Awaiting(es, h, stack, fetch, Pending(f, pop, <<>>))

\* Lines 191-200 and 331-333 of the relation branch, on the entities es with
\* their populate flags set: the parents are selected, then the call suspends.
populateManyRelation(es, h, stack, f, pop, prop) ==
  Suspended("where", es, h, stack,
            Pending(f, pop, filterCollections(es, f.entities, prop.name, f.opts.refresh)))

\* EntityLoader.populateMany up to its first await, on the property prop.
populateManyOf(es, h, stack, f, pop, prop) ==
  IF prop.reference = SCALAR /\ prop.lazy
  THEN populateManyScalar(es, h, stack, f, pop, prop,
                          lazyScalarFetch(es, f.entityName, f.entities, prop, f.opts,
                                          Append(f.path, pop.field[1])))
  ELSE IF prop.reference = EMBEDDED
  THEN Suspended("populated", es, h, stack, Pending(f, pop, <<>>))
  ELSE populateManyRelation(setPopulated(es, f.entities, prop.name), h, stack, f, pop, prop)

populateMany(es, h, stack, f, pop) ==
  populateManyOf(es, h, stack, f, pop, Prop(f.entityName, pop.field[1]))

\* populateField of the frame f on the node pop, whose property is prop (lines
\* 286-294).
populateFieldOf(es, h, stack, f, pop, prop) ==
  IF prop.reference = SCALAR /\ ~prop.lazy THEN Next_(es, h, stack)
  ELSE populateMany(es, h, stack, f, pop)

\* populateField of the frame f on the node pop; stack holds the nodes left.
populateNext(es, h, stack, f, pop) ==
  IF ~HasProp(f.entityName, pop.field[1]) THEN Thrown(es, h, stack, TypeError)
  ELSE populateFieldOf(es, h, stack, f, pop, Prop(f.entityName, pop.field[1]))

\* One turn of the for-loop of populate (lines 69-71): populateField on the next
\* node of the innermost frame, up to its first await.
populateField(es, h, stack) ==
  populateNext(es, h, [stack EXCEPT ![Len(stack)].pops = Tail(@)], stack[Len(stack)],
               ReadPop(h, Head(stack[Len(stack)].pops)))

\* populate has entered its for-loop in the innermost frame of the stack: the
\* first populateField is called at once (line 70), if there is a node at all.
firstField(es, h, stack) ==
  IF stack[Len(stack)].pops = <<>> THEN Next_(es, h, stack)
  ELSE populateField(es, h, stack)

\* The property populateMany is working on.
PendingPropOf(p) == Prop(p.frame.entityName, p.pop.field[1])

\* populateMany resumed after the await of line 200 (findChildren, line 201,
\* up to its em.find) or findChildrenFromPivotTable after the await of line 333
\* (up to the driver call of line 345): the parents are filtered once more, on
\* the entities as they are now, except in the pivot branch, which asks for
\* the parents selected before the await.
findOrLoad(es, h, stack, p, prop, fetch) ==
  IF prop.reference = MANY_TO_MANY /\ usesPivotTable
  THEN Awaiting(es, h, stack,
                findChildrenFromPivotTable(p.filtered, prop, p.pop,
                                           Append(p.frame.path, p.pop.field[1])),
                p)
  ELSE IF fetch = NoFetch THEN Suspended("rows", es, h, stack, p)
  ELSE Awaiting(es, h, stack, fetch, p)

resumeAfterWhere(es, h, stack, p) ==
  findOrLoad(es, h, stack, p, PendingPropOf(p),
             IF PendingPropOf(p).reference = MANY_TO_MANY /\ usesPivotTable THEN NoFetch
             ELSE findChildren(es, p.frame.entities, PendingPropOf(p), p.pop,
                               p.frame.opts.refresh, Append(p.frame.path, p.pop.field[1])))

\* The instances of the rows a fetch returned.
Instances(type, pks) == [i \in DOMAIN pks |-> Inst(type, pks[i])]

\* The rows the store returns for a fetch.
Rows(fetch, prop) ==
  IF fetch.kind = "pivot" THEN [i \in DOMAIN fetch.ids |-> PivotRows(prop, fetch.ids[i])]
  ELSE FindRows(fetch.type, fetch.key, fetch.ids)

\* The fetch is answered with rows: em.find merges the entities of its rows
\* into the identity map before it returns them (lines 167 and 267), the driver
\* returns the raw rows of the pivot table (line 345).
loadRows(es, fetch, pending, rows, prop) ==
  IF fetch.kind = "pivot" THEN es
  ELSE IF prop.reference = SCALAR
  THEN WithScalar(MergedRows(es, Instances(fetch.type, rows), FALSE),
                  Instances(fetch.type, rows), prop.name)
  ELSE MergedRows(es, Instances(fetch.type, rows), pending.frame.opts.refresh)

\* The call behind a fetch that is answered with rows.
fetchReturned(es, h, stack, fetch, pending, rows) ==
  Suspended("rows", loadRows(es, fetch, pending, rows, PendingPropOf(pending)), h, stack,
            [pending EXCEPT !.data = rows])

\* populateField that never descends into the children of its node.
afterPopulateManyShallow(es, h, stack, f, pop) == Next_(es, h, stack)

\* EntityLoader.populateField after populateMany has returned (lines 290-317):
\* without children it is done; else the children are collected from the slots
\* of the parents and the options of the nested call are built,
\* extractChildCondition dereferencing the metadata of the target type (lines
\* 317, 367-368) before it suspends.
afterPopulateMany(es, h, stack, f, pop) ==
  IF ~pop.children.def THEN Next_(es, h, stack)
  ELSE IF ~HasMeta(Prop(f.entityName, pop.field[1]).type) THEN Thrown(es, h, stack, TypeError)
  ELSE Suspended("children", es, h, stack,
                 [Pending(f, pop, <<>>) EXCEPT !.children = childrenOf(es, f.entities, pop.field[1])])

\* Line 202, or lines 346-360 of the pivot branch: the children are attached to
\* the parents selected before the awaits.
attachRows(es, p, prop) ==
  IF prop.reference = SCALAR \/ prop.reference = EMBEDDED THEN es
  ELSE IF prop.reference = MANY_TO_MANY /\ usesPivotTable
  THEN attachPivotRows(es, p.filtered, p.data, prop, p.frame.opts.refresh)
  ELSE initializeCollections(es, p.filtered, prop, Instances(prop.type, p.data))

\* What populateMany returns: the entities it was given (line 173), the
\* children of the pivot table (line 198), or the result of findChildren (lines
\* 202-204).
populateManyResult(es, p, prop) ==
  IF prop.reference = SCALAR THEN p.frame.entities
  ELSE IF prop.reference = MANY_TO_MANY /\ usesPivotTable
  THEN pivotChildren(es, p.filtered, p.data, prop, p.frame.opts.refresh)
  ELSE Instances(prop.type, p.data)

\* populateField collecting the children of its node before populateMany has
\* attached them to the parents.
resumePopulateManyEarly(es, h, stack, p) ==
  [afterPopulateMany(es, h, stack, p.frame, p.pop) EXCEPT
     !.es = attachRows(es, p, PendingPropOf(p))]

\* The continuation of populateMany after its last await (lines 173, 202-204
\* and 346-362), up to its return.
resumePopulateMany(es, h, stack, p) ==
  Suspended("populated", attachRows(es, p, PendingPropOf(p)), h, stack, p)

\* The caller of a nested populate that came to r: it returned, threw, or
\* entered its for-loop in a frame of its own and called its first
\* populateField.
Descended(es, stack, r) ==
  CASE r.kind = "return" -> Next_(es, r.h, stack)
    [] r.kind = "error" -> Thrown(es, r.h, stack, r.error)
    [] OTHER -> firstField(r.es, r.h, Append(stack, r.frame))

\* populateField resumed after the await of line 317: populate is called on
\* the children collected before it and on the children array of the node
\* (lines 316-327).
nestedPopulate(es, h, stack, p) ==
  Descended(es, stack,
            populate(es, h, PendingPropOf(p).type, p.children,
                     RequestRef(FALSE, nodeChildren(h, p.pop.id)),
                     nestedOptions(p.frame.opts), Append(p.frame.path, p.pop.field[1])))

\* The frames whose for-loop has ended return to their callers.
RECURSIVE Unwind(_)
Unwind(stack) ==
  IF stack # <<>> /\ stack[Len(stack)].pops = <<>>
  THEN Unwind(SubSeq(stack, 1, Len(stack) - 1))
  ELSE stack

Idle == [pc |-> "idle"]

\* The normalizer probe is not in use.
NoNorm == [phase |-> "off"]

\* The invocation after a turn of the orchestrator.  pc tells where it stands:
\* "next" before the next populateField of its innermost for-loop, "await"
\* behind a fetch, or at one of the other awaits (see Suspended).
Settled(c, o) ==
  CASE o.kind = "error" ->
         [c EXCEPT !.pc = "done", !.result = o.error, !.stack = <<>>, !.heap = o.h,
                   !.pending = <<>>]
    [] o.kind = "next" ->
         IF Unwind(o.stack) = <<>>
         THEN [c EXCEPT !.pc = "done", !.result = "ok", !.stack = <<>>, !.heap = o.h,
                        !.pending = <<>>]
         ELSE [c EXCEPT !.pc = "next", !.stack = Unwind(o.stack), !.heap = o.h,
                        !.pending = <<>>]
    [] OTHER ->
         [c EXCEPT !.pc = o.kind, !.stack = o.stack, !.pending = o.pending, !.heap = o.h]

\* The fetch the turn has issued, if any, is added to the fetches lg.
Issued(lg, o) == IF o.kind = "await" THEN Append(lg, o.fetch) ELSE lg

\* The invocation c and the entities es once populate has come to r: it has
\* returned or thrown, or it is in its for-loop and has called populateField on
\* the first node; log holds the fetch that has issued.
EnteredLoop(c, o) == [call |-> Settled(c, o), es |-> o.es, log |-> Issued(<<>>, o)]

Entered(c, es, r) ==
  CASE r.kind = "return" ->
         [call |-> [c EXCEPT !.pc = "done", !.result = "ok", !.normalized = r.normalized,
                             !.heap = r.h],
          es |-> es, log |-> <<>>]
    [] r.kind = "error" ->
         [call |-> [c EXCEPT !.pc = "done", !.result = r.error, !.field = r.field,
                             !.normalized = r.normalized, !.heap = r.h],
          es |-> es, log |-> <<>>]
    [] OTHER ->
         EnteredLoop([c EXCEPT !.normalized = r.normalized], firstField(r.es, r.h, <<r.frame>>))

\* The invocation populate(entityName, entities, request, opts) on the entities
\* es, run up to its first await.  heap holds the objects of the request of the
\* caller, request the array (or true) the caller passed, and populate what the
\* request was, as a value, when the caller passed it.
Invoked(es, h, entityName, entities, ref, opts, repeat) ==
  Entered([pc |-> "next", result |-> "none", field |-> <<>>,
           entityName |-> entityName, entities |-> entities,
           populate |-> ReadRequest(h, ref), request |-> ref, heap |-> h,
           opts |-> opts, repeat |-> repeat, normalized |-> FALSE,
           stack |-> <<>>, pending |-> <<>>, pre |-> es],
          es, populate(es, h, entityName, entities, ref, opts, <<>>))

\* The caller builds its request and calls populate.
Called(es, a, entityName, entities, opts) ==
  Invoked(es, a.h, entityName, entities, a.ref, opts, FALSE)

(***************************************************************************)
(* The callers.  A caller loads root entities with em.find and calls       *)
(* populate on them (or hands it an object that is no entity).             *)
(***************************************************************************)
\* The entity lists of the callers: the first k rows, or a list with an object
\* that is no entity.
RootLists(t) ==
  {[i \in 1..k |-> Inst(t, i)] : k \in 0..MaxPk} \cup {<<Plain(t)>>, <<Inst(t, 1), Plain(t)>>}

\* The populate strings of the callers, by root type.
CallPaths(t) ==
  CASE t = "User" ->
         { <<"accessProfile">>, <<"accessProfile", "permissions">>, <<"ownedProfile">>,
           <<"bio">>, <<"name">>, <<"nope">>, <<"nope", "x">>, <<"constructor">> }
    [] t = "UserAccessProfile" ->
         { <<"users">>, <<"permissions">>, <<"owner">>, <<"users", "accessProfile", "users">>,
           <<"users", "accessProfile", "permissions">> }
    [] t = "Permission" ->
         { <<"accessProfiles">> }

\* The requests of the callers.  None gives children to a node named after a
\* member of Object.prototype, so that every call finds the members as a fresh
\* process has them.
CallRequests(t) ==
  {RequestList(<<>>)}
    \cup {RequestList(<<FieldNode(a)>>) : a \in CallPaths(t)}
    \cup (IF t = "UserAccessProfile"
          THEN {RequestList(<<FieldNode(<<"permissions">>), FieldNode(<<"users">>)>>),
                RequestList(<<Node(<<"users">>, Undefined, TRUE, NoChildren)>>)}
          ELSE {})
    \cup (IF t = "User"
          THEN {RequestList(<<Node(<<"ownedProfile">>, JOINED, FALSE, NoChildren)>>),
                RequestList(<<FieldNode(<<"nope">>), FieldNode(<<"1">>)>>),
                RequestList(<<FieldNode(<<"10">>), FieldNode(<<"9">>)>>),
                RequestList(<<Node(<<"bio">>, Undefined, FALSE,
                                   Children(<<FieldNode(<<"id">>)>>))>>)}
          ELSE {})

\* The options of the callers.  validate and ignoreLazyScalarProperties are only
\* varied for the requests they bear on.
CallOptions(request) ==
  { Options(FALSE, TRUE, TRUE, FALSE), Options(TRUE, TRUE, TRUE, FALSE) }
    \cup (IF \E i \in DOMAIN request.list : request.list[i].field[1] \in {"nope", "constructor"}
          THEN {Options(FALSE, FALSE, TRUE, FALSE)} ELSE {})
    \cup (IF \E i \in DOMAIN request.list : request.list[i].field[1] = "bio"
          THEN {Options(FALSE, TRUE, TRUE, TRUE)} ELSE {})

Tracked(entities) == SelectSeq(entities, HasHelper)

\* The schema configurations of the callers: the one-to-one owner joined
\* automatically or not, and User.accessProfile mapped to the primary key or to
\* a reference.
Configs ==
  {[eager |-> {}, joined |-> {}, mapToPk |-> {}, autoJoinOneToOneOwner |-> a,
    usesPivotTable |-> TRUE] : a \in BOOLEAN}
  \cup {[eager |-> {}, joined |-> {}, mapToPk |-> {<<"User", "accessProfile">>},
         autoJoinOneToOneOwner |-> TRUE, usesPivotTable |-> TRUE],
        [eager |-> {}, joined |-> {}, mapToPk |-> {}, autoJoinOneToOneOwner |-> TRUE,
         usesPivotTable |-> FALSE]}

Init ==
  /\ cfg \in Configs
  /\ db = InitDb
  /\ ents = <<>>
  /\ call = Idle
  /\ log = <<>>
  /\ ncalls = 0
  /\ nwrites = 0
  /\ norm = NoNorm

\* A caller finds the root entities and calls populate on them.
Start ==
  /\ call.pc = "idle"
  /\ ncalls < MaxCalls
  /\ \E t \in Types :
       \E entities \in RootLists(t), request \in CallRequests(t) :
        \E opts \in CallOptions(request) :
         \E i \in {Called(MergedRows(ents, Tracked(entities), FALSE),
                           AllocRequest(NoObjects, request), t, entities, opts)} :
           /\ call' = i.call
           /\ ents' = i.es
           /\ log' = i.log
  /\ ncalls' = ncalls + 1
  /\ UNCHANGED <<cfg, db, nwrites, norm>>

\* The caller calls populate again with the same arguments: the array it passed
\* before, as the first call left it.
Repeat ==
  /\ call.pc = "done"
  /\ call.result = "ok"
  /\ ~call.repeat
  /\ ncalls < MaxCalls
  /\ \E i \in {Invoked(ents, call.heap, call.entityName, call.entities, call.request,
                         call.opts, TRUE)} :
       /\ call' = i.call
       /\ ents' = i.es
       /\ log' = i.log
  /\ ncalls' = ncalls + 1
  /\ UNCHANGED <<cfg, db, nwrites, norm>>

\* The for-loop of a frame goes on: populateField on the next node, up to its
\* first await.
Step ==
  /\ call.pc = "next"
  /\ \E o \in {populateField(ents, call.heap, call.stack)} :
       /\ call' = Settled(call, o)
       /\ ents' = o.es
       /\ log' = Issued(log, o)
  /\ UNCHANGED <<cfg, db, ncalls, nwrites, norm>>

\* The await of extractChildCondition is over (lines 200 and 333): the fetch is
\* issued, or findChildren finds nothing to load.
FindChildren ==
  /\ call.pc = "where"
  /\ \E o \in {resumeAfterWhere(ents, call.heap, call.stack, call.pending)} :
       /\ call' = Settled(call, o)
       /\ ents' = o.es
       /\ log' = Issued(log, o)
  /\ UNCHANGED <<cfg, db, ncalls, nwrites, norm>>

\* The awaited fetch returns its rows.
FetchReturn ==
  /\ call.pc = "await"
  /\ \E rows \in {Rows(log[Len(log)], PendingPropOf(call.pending))} :
       \E o \in {fetchReturned(ents, call.heap, call.stack, log[Len(log)], call.pending, rows)} :
         /\ call' = Settled(call, o)
         /\ ents' = o.es
         /\ log' = [log EXCEPT ![Len(log)].done = TRUE, ![Len(log)].rows = rows]
  /\ UNCHANGED <<cfg, db, ncalls, nwrites, norm>>

\* A loader that swallows the failure of a fetch and goes on with the fields
\* that are left.
FetchFailSwallowed ==
  /\ call.pc = "await"
  /\ call' = Settled(call, Next_(ents, call.heap, call.stack))
  /\ UNCHANGED <<cfg, db, ents, log, ncalls, nwrites, norm>>

\* The awaited fetch fails.
FetchFail ==
  /\ call.pc = "await"
  /\ call' = [call EXCEPT !.pc = "done", !.result = FetchError, !.stack = <<>>, !.pending = <<>>]
  /\ UNCHANGED <<cfg, db, ents, log, ncalls, nwrites, norm>>

\* populateMany goes on with what it awaited (lines 202 and 346-360) and returns.
PopulateManyReturn ==
  /\ call.pc = "rows"
  /\ \E o \in {resumePopulateMany(ents, call.heap, call.stack, call.pending)} :
       /\ call' = Settled(call, o)
       /\ ents' = o.es
       /\ log' = IF call.pending.fetched
                 THEN [log EXCEPT ![Len(log)].returned =
                         populateManyResult(ents, call.pending, PendingPropOf(call.pending))]
                 ELSE log
  /\ UNCHANGED <<cfg, db, ncalls, nwrites, norm>>

\* populateField goes on after populateMany (lines 291 and 294-317).
PopulateFieldResume ==
  /\ call.pc = "populated"
  /\ \E o \in {afterPopulateMany(ents, call.heap, call.stack, call.pending.frame,
                                  call.pending.pop)} :
       /\ call' = Settled(call, o)
       /\ ents' = o.es
  /\ UNCHANGED <<cfg, db, log, ncalls, nwrites, norm>>

\* populateField calls populate on the children (lines 316-327), which runs up
\* to the first await of its first populateField.
NestedPopulate ==
  /\ call.pc = "children"
  /\ \E o \in {nestedPopulate(ents, call.heap, call.stack, call.pending)} :
       /\ call' = Settled(call, o)
       /\ ents' = o.es
       /\ log' = Issued(log, o)
  /\ UNCHANGED <<cfg, db, ncalls, nwrites, norm>>

\* populate has returned or thrown: the caller goes on.
Return ==
  /\ call.pc = "done"
  /\ call' = Idle
  /\ log' = <<>>
  /\ UNCHANGED <<cfg, db, ents, ncalls, nwrites, norm>>

\* Another unit of work changes the store between two calls.
DbWrite ==
  /\ call.pc = "idle"
  /\ nwrites < MaxWrites
  /\ 0 < ncalls /\ ncalls < MaxCalls
  /\ \E d \in DbWrites(db) : db' = d
  /\ nwrites' = nwrites + 1
  /\ UNCHANGED <<cfg, ents, call, log, ncalls, norm>>

Next ==
  \/ Start \/ Repeat \/ Step \/ FindChildren \/ FetchReturn \/ FetchFail
  \/ PopulateManyReturn \/ PopulateFieldResume \/ NestedPopulate \/ Return \/ DbWrite

Spec == Init /\ [][Next]_vars

(***************************************************************************)
(* The normalizer on its own: the schema options and a request are drawn,  *)
(* then normalizePopulate is applied to the request.                       *)
(***************************************************************************)
\* Schema options: which relations are eager and which declare the JOINED strategy.
SchemaOptions ==
  { [eager |-> e, joined |-> j, mapToPk |-> {}, autoJoinOneToOneOwner |-> TRUE,
     usesPivotTable |-> TRUE] :
      e \in { {}, {<<"UserAccessProfile", "permissions">>},
              {<<"UserAccessProfile", "permissions">>, <<"Permission", "accessProfiles">>},
              {<<"User", "accessProfile">>, <<"UserAccessProfile", "users">>},
              {<<"Category", "parent">>, <<"UserAccessProfile", "users">>},
              {<<"Author", "address_city">>} },
      j \in { {}, {<<"User", "accessProfile">>} } }

\* Dotted populate strings of the callers, by root type.
Paths(t) ==
  CASE t = "User" ->
         { <<"accessProfile">>, <<"accessProfile", "permissions">>,
           <<"accessProfile", "users">>, <<"ownedProfile">>, <<"bio">>,
           <<"nope">>, <<"nope", "x">> }
    [] t = "UserAccessProfile" ->
         { <<"users">>, <<"permissions">>, <<"owner">>, <<"users", "accessProfile">>,
           <<"users", "accessProfile", "users">>,
           <<"users", "accessProfile", "permissions">> }
    [] t = "Permission" ->
         { <<"accessProfiles">>, <<"accessProfiles", "users">> }
    [] t = "Category" ->
         { <<"parent">>, <<"parent", "parent">> }
    [] t = "Author" ->
         { <<"address">>, <<"address", "city">>, <<"address_city">> }
    [] t = "City" ->
         { }

\* The node a caller writes for a path with the children array instead of the
\* dot syntax: { field: 'a', children: [{ field: 'b' }] } for 'a.b'.
RECURSIVE NestedNode(_)
NestedNode(path) ==
  IF Len(path) = 1 THEN FieldNode(path)
  ELSE Node(<<path[1]>>, Undefined, FALSE, Children(<<NestedNode(Tail(path))>>))

\* Nodes of the callers whose children use the dot syntax themselves:
\* { field: 'a', children: [{ field: 'a.b' }] }.
DottedChildNodes(t) ==
  CASE t = "Category" ->
         { Node(<<"parent">>, Undefined, FALSE,
                Children(<<FieldNode(<<"parent", "parent">>)>>)) }
    [] t = "UserAccessProfile" ->
         { Node(<<"users">>, Undefined, FALSE,
                Children(<<Node(<<"accessProfile">>, Undefined, FALSE,
                                Children(<<FieldNode(<<"users", "accessProfile">>)>>))>>)) }
    [] OTHER -> {}

\* Nodes of the callers whose field is a name every plain object inherits, or
\* an integer-like name.
InheritedNameNodes(t) ==
  IF t = "UserAccessProfile"
  THEN { FieldNode(<<"constructor">>), FieldNode(<<"constructor", "x">>),
         Node(<<"toString">>, Undefined, FALSE, Children(<<FieldNode(<<"permissions">>)>>)),
         FieldNode(<<"2">>), FieldNode(<<"1">>), FieldNode(<<"10">>), FieldNode(<<"01">>),
         Node(<<"__proto__">>, Undefined, FALSE, Children(<<>>)),
         Node(<<"__proto__">>, Undefined, FALSE, Children(<<FieldNode(<<"users">>)>>)) }
  ELSE {}

\* The nodes of the callers: dotted strings, nodes with children, nodes with all.
NormNodes(t) ==
  {FieldNode(a) : a \in Paths(t)}
    \cup {NestedNode(a) : a \in {b \in Paths(t) : Len(b) > 1}}
    \cup {Node(a, Undefined, TRUE, NoChildren) : a \in {b \in Paths(t) : Len(b) = 1}}
    \cup DottedChildNodes(t)
    \cup InheritedNameNodes(t)

\* A name that is no entity type of the metadata.
UnknownTypes == {"Nope"}

NormRequests(t) ==
  IF t \in UnknownTypes
  THEN {RequestTrue, RequestList(<<FieldNode(<<"x">>)>>), RequestList(<<FieldNode(<<"x", "y">>)>>)}
  ELSE {RequestTrue, RequestList(<<>>)}
         \cup {RequestList(<<a>>) : a \in NormNodes(t)}
         \cup {RequestList(<<a, b>>) : a \in NormNodes(t), b \in NormNodes(t)}

InitNorm ==
  /\ cfg \in SchemaOptions
  /\ \E t \in Types \cup TreeTypes \cup UnknownTypes, lookup \in BOOLEAN,
        strategy \in {Undefined, JOINED} :
       \E r \in NormRequests(t) :
         norm = [phase |-> "in", entityName |-> t, populate |-> r,
                 strategy |-> strategy, lookup |-> lookup]
  /\ db = InitDb /\ ents = <<>> /\ call = Idle /\ log = <<>>
  /\ ncalls = 0 /\ nwrites = 0

Normalize ==
  /\ norm.phase = "in"
  /\ ~normalizeThrows(norm.entityName, norm.populate, norm.strategy, norm.lookup)
  /\ ~normalizeOverflows(norm.entityName, norm.populate, norm.strategy, norm.lookup)
  /\ norm' = [norm EXCEPT !.phase = "out"] @@
             [out |-> Normalized(norm.entityName, norm.populate, norm.strategy, norm.lookup),
              request |-> NormalizedRequest(norm.entityName, norm.populate, norm.strategy,
                                            norm.lookup)]
  /\ UNCHANGED <<cfg, db, ents, call, log, ncalls, nwrites>>

NormalizeThrow ==
  /\ norm.phase = "in"
  /\ normalizeThrows(norm.entityName, norm.populate, norm.strategy, norm.lookup)
  /\ norm' = [norm EXCEPT !.phase = "TypeError"] @@
             [request |-> RequestThrown(norm.entityName, norm.populate, norm.strategy,
                                        norm.lookup)]
  /\ UNCHANGED <<cfg, db, ents, call, log, ncalls, nwrites>>

\* The recursion of mergeNestedPopulate does not end: the call stack overflows.
\* How far the objects of the request were changed by then depends on the depth
\* of the stack, so they are not recorded.
NormalizeOverflow ==
  /\ norm.phase = "in"
  /\ ~normalizeThrows(norm.entityName, norm.populate, norm.strategy, norm.lookup)
  /\ normalizeOverflows(norm.entityName, norm.populate, norm.strategy, norm.lookup)
  /\ norm' = [norm EXCEPT !.phase = RangeError]
  /\ UNCHANGED <<cfg, db, ents, call, log, ncalls, nwrites>>

NextNorm == Normalize \/ NormalizeThrow \/ NormalizeOverflow

SpecNorm == InitNorm /\ [][NextNorm]_vars

(***************************************************************************)
(* The eager lookup step by step.  The recursion of                        *)
(* lookupEagerLoadedRelationships is kept as a stack of frames, one per    *)
(* invocation that got past the visited check, each with the relations its *)
(* forEach has still to visit and the nodes it has collected.              *)
(***************************************************************************)
\* An invocation past line 516: the type is pushed on visited, ret starts as a
\* copy of populate at the top level, and the relations to visit are filtered.
LookupFrame(entityName, nodes, prefix, visited) ==
  [entityName |-> entityName, populate |-> nodes, prefix |-> prefix,
   visited |-> Append(visited, entityName),
   ret |-> IF prefix = <<>> THEN nodes ELSE <<>>,
   rels |-> SelectSeq(Relations(entityName),
                      LAMBDA name : \/ Prop(entityName, name).eager
                                    \/ \E i \in DOMAIN nodes : nodes[i].field = <<name>>)]

\* populate.find(p => p.field === name)
NodeOf(nodes, name) ==
  nodes[CHOOSE i \in DOMAIN nodes :
          nodes[i].field = <<name>> /\ \A j \in 1..(i - 1) : nodes[j].field # <<name>>]

\* populate.find(p => p.field === prop.name)?.children ?? [] (line 526)
nestedPopulateOf(nodes, name) ==
  IF \E i \in DOMAIN nodes : nodes[i].field = <<name>> /\ nodes[i].children.def
                               /\ \A j \in 1..(i - 1) : nodes[j].field # <<name>>
  THEN NodeOf(nodes, name).children.list
  ELSE <<>>

\* Lines 529-536: the frame f takes what the invocation for its next relation
\* returned, or a node for the relation when that is empty.
Collected(f, nested, strategy) ==
  [f EXCEPT !.rels = Tail(@),
            !.ret = @ \o (IF Len(nested) > 0 THEN nested
                          ELSE << Node(f.prefix \o getRelationName(f.entityName, Head(f.rels)),
                                       Coalesce(strategy, Prop(f.entityName, Head(f.rels)).strategy),
                                       FALSE, NoChildren) >>)]

InitWalk ==
  /\ cfg \in SchemaOptions
  /\ \E t \in Types \cup TreeTypes, strategy \in {Undefined, JOINED} :
       \E r \in NormRequests(t) :
         norm = [phase |-> "walk", entityName |-> t, populate |-> r, strategy |-> strategy,
                 lookup |-> TRUE,
                 stack |-> << LookupFrame(t, LookedUp(t, r, strategy, FALSE), <<>>, <<>>) >>]
  /\ db = InitDb /\ ents = <<>> /\ call = Idle /\ log = <<>>
  /\ ncalls = 0 /\ nwrites = 0

\* The invocation for the next relation gets past the visited check.
WalkEnter ==
  /\ norm.phase = "walk"
  /\ \E f \in {norm.stack[Len(norm.stack)]} :
       /\ f.rels # <<>>
       /\ \E type \in {Prop(f.entityName, Head(f.rels)).type} :
            /\ ~(visitedIncludes(f.visited, type) \/ ~HasMeta(type))
            /\ norm' = [norm EXCEPT !.stack =
                          Append(@, LookupFrame(type, nestedPopulateOf(f.populate, Head(f.rels)),
                                                f.prefix \o getRelationName(f.entityName, Head(f.rels)),
                                                f.visited))]
  /\ UNCHANGED <<cfg, db, ents, call, log, ncalls, nwrites>>

\* The invocation for the next relation returns its populate at line 515.
WalkVisited ==
  /\ norm.phase = "walk"
  /\ \E f \in {norm.stack[Len(norm.stack)]} :
       /\ f.rels # <<>>
       /\ \E type \in {Prop(f.entityName, Head(f.rels)).type} :
            /\ visitedIncludes(f.visited, type) \/ ~HasMeta(type)
            /\ norm' = [norm EXCEPT !.stack[Len(norm.stack)] =
                          Collected(f, nestedPopulateOf(f.populate, Head(f.rels)), norm.strategy)]
  /\ UNCHANGED <<cfg, db, ents, call, log, ncalls, nwrites>>

\* A nested invocation has visited its relations and returns ret to its caller.
WalkReturn ==
  /\ norm.phase = "walk"
  /\ Len(norm.stack) > 1
  /\ norm.stack[Len(norm.stack)].rels = <<>>
  /\ norm' = [norm EXCEPT !.stack =
                 [SubSeq(norm.stack, 1, Len(norm.stack) - 1) EXCEPT ![Len(norm.stack) - 1] =
                    Collected(@, norm.stack[Len(norm.stack)].ret, norm.strategy)]]
  /\ UNCHANGED <<cfg, db, ents, call, log, ncalls, nwrites>>

\* The top-level invocation returns.
WalkDone ==
  /\ norm.phase = "walk"
  /\ Len(norm.stack) = 1
  /\ norm.stack[1].rels = <<>>
  /\ norm' = [norm EXCEPT !.phase = "walked", !.stack = <<>>] @@ [ret |-> norm.stack[1].ret]
  /\ UNCHANGED <<cfg, db, ents, call, log, ncalls, nwrites>>

NextWalk == WalkEnter \/ WalkVisited \/ WalkReturn \/ WalkDone

\* An invocation that can go on does go on.
SpecWalk == InitWalk /\ [][NextWalk]_vars /\ WF_vars(NextWalk)

(***************************************************************************)
(* The condition and the field list of a batched fetch, on their own: the  *)
(* inputs of mergePrimaryCondition or of buildFields are drawn, then the   *)
(* function is applied.                                                    *)
(*   A condition is a dictionary from keys to values; a value is a number, *)
(*   null, or the operator object { $in: [...] }.                          *)
(*   An entry of the fields option is a string, kept as its segments       *)
(*   between the dots, or a plain object that groups fields by property.   *)
(***************************************************************************)
Num(n) == [tag |-> "number", v |-> <<n>>]
Null == [tag |-> "null", v |-> <<>>]
In(ids) == [tag |-> "$in", v |-> ids]

\* JavaScript truthiness of a value of a condition: 0 and null are falsy, an
\* object is truthy.
TruthyValue(x) == IF x.tag = "number" THEN x.v[1] # 0 ELSE x.tag # "null"

\* { ...a, ...b }
Spread(a, b) == [k \in DOMAIN a \cup DOMAIN b |-> IF k \in DOMAIN b THEN b[k] ELSE a[k]]

\* { [pk]: { $in: ids } } (line 276)
cond1(ids, pk) == [k \in {pk} |-> In(ids)]

And(conds) == [and |-> TRUE, conds |-> conds]
Dictionary(d) == [and |-> FALSE, conds |-> <<d>>]

\* Whether options.where[pk] is truthy (line 278).
whereTargets(where, pk) == IF pk \in DOMAIN where THEN TruthyValue(where[pk]) ELSE FALSE

\* EntityLoader.mergePrimaryCondition
mergePrimaryCondition(ids, pk, where) ==
  IF whereTargets(where, pk) THEN And(<<cond1(ids, pk), where>>)
  ELSE Dictionary(Spread(cond1(ids, pk), where))

StringField(parts) == [obj |-> FALSE, parts |-> parts, groups |-> <<>>]
ObjectField(groups) == [obj |-> TRUE, parts |-> <<>>, groups |-> groups]

FieldsUndefined == [def |-> FALSE, list |-> <<>>]
Fields(list) == [def |-> TRUE, list |-> list]

\* What one entry of the fields option adds to ret (lines 408-421).
entryFields(f, name) ==
  IF f.obj THEN (IF name \in DOMAIN f.groups THEN f.groups[name] ELSE <<>>)
  ELSE IF Len(f.parts) > 1 /\ Head(f.parts) = name THEN <<Tail(f.parts)>>
  ELSE <<>>

\* fields.reduce (lines 407-424)
RECURSIVE reduceFields(_, _)
reduceFields(fields, name) ==
  IF fields = <<>> THEN <<>>
  ELSE entryFields(Head(fields), name) \o reduceFields(Tail(fields), name)

\* buildFields that never adds the foreign key of the inverse side.
withOwnerNever(ret, prop) == Fields(ret)

\* Lines 426-438 of buildFields, on the reduced list ret.
withOwner(ret, prop) ==
  IF Len(ret) = 0 THEN FieldsUndefined
  ELSE IF prop.reference = ONE_TO_MANY /\ ~Contains(ret, <<prop.mappedBy>>)
  THEN Fields(Append(ret, <<prop.mappedBy>>))
  ELSE Fields(ret)

\* EntityLoader.buildFields
buildFields(fields, prop) == withOwner(reduceFields(fields, prop.name), prop)

\* The keys of the conditions and the values a caller gives them.
CondKeys == {"id", "accessProfile", "name"}

CondValues == {Num(0), Num(1), Null, In(<<1>>), In(<<1, 2>>)}

Conditions == UNION {[K -> CondValues] : K \in SUBSET CondKeys}

\* The id lists of a batch: Utils.unique leaves no duplicate.
IdLists ==
  {ids \in UNION {[1..n -> Pks] : n \in 1..MaxPk} :
     \A i, j \in DOMAIN ids : ids[i] = ids[j] => i = j}

\* The relations whose fetch the fields are built for.
FieldProps ==
  {<<"UserAccessProfile", "users">>, <<"User", "accessProfile">>,
   <<"UserAccessProfile", "permissions">>}

\* The entries of the fields option of the callers.
FieldEntries ==
  {StringField(parts) :
     parts \in {<<"users">>, <<"id">>, <<"users", "id">>, <<"users", "accessProfile">>,
                <<"users", "accessProfile", "id">>, <<"accessProfile", "id">>,
                <<"permissions", "id">>}}
  \cup
  {ObjectField(g) :
     g \in {[k \in {"users"} |-> <<>>],
            [k \in {"users"} |-> <<(<<"id">>)>>],
            [k \in {"users"} |-> <<(<<"accessProfile">>)>>],
            [k \in {"users"} |-> <<(<<"id">>), (<<"accessProfile">>)>>],
            [k \in {"accessProfile"} |-> <<(<<"id">>)>>],
            [k \in {"permissions", "users"} |-> <<(<<"id">>)>>]}}

FieldLists == UNION {[1..n -> FieldEntries] : n \in 0..MaxFields}

InitQuery ==
  /\ cfg = [eager |-> {}, joined |-> {}, mapToPk |-> {}, autoJoinOneToOneOwner |-> TRUE,
            usesPivotTable |-> TRUE]
  /\ \/ \E ids \in IdLists, pk \in {"id", "accessProfile"}, where \in Conditions :
          norm = [phase |-> "where", ids |-> ids, pk |-> pk, where |-> where]
     \/ \E tf \in FieldProps, fields \in FieldLists :
          norm = [phase |-> "fields", entityName |-> tf[1], field |-> tf[2], fields |-> fields]
  /\ db = InitDb /\ ents = <<>> /\ call = Idle /\ log = <<>>
  /\ ncalls = 0 /\ nwrites = 0

MergeCondition ==
  /\ norm.phase = "where"
  /\ norm' = [norm EXCEPT !.phase = "merged"] @@
             [out |-> mergePrimaryCondition(norm.ids, norm.pk, norm.where)]
  /\ UNCHANGED <<cfg, db, ents, call, log, ncalls, nwrites>>

BuildFields ==
  /\ norm.phase = "fields"
  /\ norm' = [norm EXCEPT !.phase = "built"] @@
             [out |-> buildFields(norm.fields, Prop(norm.entityName, norm.field))]
  /\ UNCHANGED <<cfg, db, ents, call, log, ncalls, nwrites>>

NextQuery == MergeCondition \/ BuildFields

SpecQuery == InitQuery /\ [][NextQuery]_vars

(***************************************************************************)
(* The schema of the fetch of a relation, on its own: the parents, the     *)
(* entities in their slots, the schema each entity carries and the schema  *)
(* option are drawn; populateField may hand the options to a nested        *)
(* level; then findChildren chooses the schema of its em.find.             *)
(***************************************************************************)
\* The children of findChildren (lines 239-252): the entities whose keys make the
\* batch.
findChildrenOf(es, entities, prop, node, refresh) ==
  IF /\ prop.reference = ONE_TO_ONE /\ ~prop.owner
     /\ node.strategy # JOINED /\ ~cfg.autoJoinOneToOneOwner
  THEN filterByReferences(es, entities, prop.name, refresh)
  ELSE getChildReferences(es, entities, prop, refresh)

\* A schema name that is truthy: neither undefined nor the empty string.
TruthySchema(schema) == schema \notin {Undefined, ""}

\* children.find(e => e.__helper.__schema)?.__helper.__schema (line 259)
RECURSIVE firstSchema(_, _)
firstSchema(children, schemas) ==
  IF children = <<>> THEN Undefined
  ELSE IF TruthySchema(schemas[Head(children)]) THEN schemas[Head(children)]
  ELSE firstSchema(Tail(children), schemas)

\* findChildren that never infers a schema.
findSchemaOptionOnly(schema, prop, children, schemas) == schema

\* The schema findChildren hands to em.find (lines 242, 258-260, 271).
findSchema(schema, prop, children, schemas) ==
  IF ~TruthySchema(schema) /\ prop.reference \in {ONE_TO_ONE, MANY_TO_ONE}
  THEN firstSchema(children, schemas)
  ELSE schema

\* The schemas an entity carries.
Schemas == {Undefined, "", "tenant_01", "tenant_02"}

\* The schema options of the callers.
SchemaOptionValues == {Undefined, "", "tenant_02"}

\* The relations whose fetch is looked at.
SchemaProps ==
  {<<"User", "accessProfile">>, <<"User", "ownedProfile">>,
   <<"UserAccessProfile", "owner">>, <<"UserAccessProfile", "users">>}

\* A loaded parent of type t whose slot f holds v.
ParentWith(t, f, v) ==
  [initialized |-> TRUE, populated |-> FALSE, ser |-> FALSE,
   slots |-> [g \in SlotNames(t) |-> IF g = f THEN v ELSE SlotUndefined]]

\* The values of the slot of a parent for the property p.
SlotChoices(p) ==
  IF p.reference = ONE_TO_MANY THEN {SlotCollection(FALSE, <<>>, FALSE)}
  ELSE {SlotUndefined, SlotEntity(Inst(p.type, 1)), SlotEntity(Inst(p.type, 2))}

\* Two parents of type t with the slots v1 and v2, and the two entities of the
\* target type: the second is not loaded, the first is loaded or not.
SchemaEntities(t, p, v1, v2, loaded) ==
  [i \in {Inst(t, 1), Inst(t, 2), Inst(p.type, 1), Inst(p.type, 2)} |->
     IF i = Inst(t, 1) THEN ParentWith(t, p.name, v1)
     ELSE IF i = Inst(t, 2) THEN ParentWith(t, p.name, v2)
     ELSE IF i = Inst(p.type, 1) /\ t # p.type /\ loaded
     THEN [Stub(p.type) EXCEPT !.initialized = TRUE]
     ELSE Stub(p.type)]

InitSchema ==
  /\ cfg \in {[eager |-> {}, joined |-> {}, mapToPk |-> {}, autoJoinOneToOneOwner |-> a,
               usesPivotTable |-> TRUE] : a \in BOOLEAN}
  /\ \E tf \in SchemaProps, strategy \in {Undefined, JOINED}, schema \in SchemaOptionValues,
        refresh \in BOOLEAN :
       \E p \in {Prop(tf[1], tf[2])} :
         \E v1 \in SlotChoices(p), v2 \in SlotChoices(p), loaded \in BOOLEAN :
           /\ ents = SchemaEntities(tf[1], p, v1, v2, loaded)
           /\ \E schemas \in [{Inst(tf[1], 1), Inst(tf[1], 2), Inst(p.type, 1), Inst(p.type, 2)}
                                -> Schemas] :
                norm = [phase |-> "schema", entityName |-> tf[1],
                        entities |-> <<Inst(tf[1], 1), Inst(tf[1], 2)>>,
                        populate |-> Node(<<tf[2]>>, strategy, FALSE, NoChildren),
                        opts |-> [Options(refresh, TRUE, TRUE, FALSE) EXCEPT !.schema = schema],
                        schemas |-> schemas, nested |-> FALSE]
  /\ db = InitDb /\ call = Idle /\ log = <<>>
  /\ ncalls = 0 /\ nwrites = 0

\* populateField hands the options to the populate of a nested level, where the
\* same parents are looked at.
PassOptions ==
  /\ norm.phase = "schema" /\ ~norm.nested
  /\ norm' = [norm EXCEPT !.opts = nestedOptions(@), !.nested = TRUE]
  /\ UNCHANGED <<cfg, db, ents, call, log, ncalls, nwrites>>

\* findChildren comes to its em.find, or returns without one.
FindSchema ==
  /\ norm.phase = "schema"
  /\ \E p \in {Prop(norm.entityName, norm.populate.field[1])} :
       \E children \in {findChildrenOf(ents, norm.entities, p, norm.populate, norm.opts.refresh)} :
         norm' = [norm EXCEPT !.phase = IF children = <<>> THEN "no-fetch" ELSE "found"] @@
                 [children |-> children,
                  out |-> findSchema(norm.opts.schema, p, children, norm.schemas)]
  /\ UNCHANGED <<cfg, db, ents, call, log, ncalls, nwrites>>

NextSchema == PassOptions \/ FindSchema

SpecSchema == InitSchema /\ [][NextSchema]_vars

(***************************************************************************)
(* Two populate calls on the same parents that run interleaved: each call  *)
(* runs up to its next await, and the other call may run before it goes    *)
(* on.  The variable call holds the two invocations, log the fetches of    *)
(* each.                                                                   *)
(***************************************************************************)
Callers == {1, 2}

\* The requests of the two callers: the one-to-many relation users, alone, after
\* another field, or with a nested level.
RaceRequests ==
  { RequestList(<<FieldNode(<<"users">>)>>),
    RequestList(<<FieldNode(<<"permissions">>), FieldNode(<<"users">>)>>),
    RequestList(<<FieldNode(<<"users", "accessProfile">>)>>) }

\* The parents both callers hold.
RaceParents ==
  { <<Inst("UserAccessProfile", 1)>>,
    <<Inst("UserAccessProfile", 1), Inst("UserAccessProfile", 2)>>,
    <<Inst("UserAccessProfile", 2), Inst("UserAccessProfile", 1)>> }

InitRace ==
  /\ cfg = [eager |-> {}, joined |-> {}, mapToPk |-> {}, autoJoinOneToOneOwner |-> TRUE,
            usesPivotTable |-> TRUE]
  /\ db \in {InitDb} \cup DbWrites(InitDb)
  /\ \E entities \in RaceParents, first \in RaceRequests, second \in RaceRequests :
       /\ ents = MergedRows(<<>>, entities, FALSE)
       /\ norm = [phase |-> "race", entities |-> entities, requests |-> <<first, second>>]
  /\ call = [c \in Callers |-> Idle]
  /\ log = [c \in Callers |-> <<>>]
  /\ ncalls = 0
  /\ nwrites = 0

\* The caller c calls populate on the parents with refresh = false: the call
\* runs up to the first await of its first populateField.
RaceStart(c) ==
  /\ call[c].pc = "idle"
  /\ \E i \in {Called(ents, AllocRequest(NoObjects, norm.requests[c]), "UserAccessProfile",
                        norm.entities, Options(FALSE, TRUE, TRUE, FALSE))} :
       /\ call' = [call EXCEPT ![c] = i.call]
       /\ ents' = i.es
       /\ log' = [log EXCEPT ![c] = i.log]
  /\ ncalls' = ncalls + 1
  /\ UNCHANGED <<cfg, db, nwrites, norm>>

\* populateField of the call c on its next node, up to its first await.
RaceStep(c) ==
  /\ call[c].pc = "next"
  /\ \E o \in {populateField(ents, call[c].heap, call[c].stack)} :
       /\ call' = [call EXCEPT ![c] = Settled(@, o)]
       /\ ents' = o.es
       /\ log' = [log EXCEPT ![c] = Issued(@, o)]
  /\ UNCHANGED <<cfg, db, ncalls, nwrites, norm>>

\* The call c resumes after the await of extractChildCondition (lines 200 and
\* 333) and issues its fetch, or finds nothing to load.
RaceFindChildren(c) ==
  /\ call[c].pc = "where"
  /\ \E o \in {resumeAfterWhere(ents, call[c].heap, call[c].stack, call[c].pending)} :
       /\ call' = [call EXCEPT ![c] = Settled(@, o)]
       /\ ents' = o.es
       /\ log' = [log EXCEPT ![c] = Issued(@, o)]
  /\ UNCHANGED <<cfg, db, ncalls, nwrites, norm>>

\* The fetch the call c awaits returns its rows.
RaceFetchReturn(c) ==
  /\ call[c].pc = "await"
  /\ \E rows \in {Rows(log[c][Len(log[c])], PendingPropOf(call[c].pending))} :
       \E o \in {fetchReturned(ents, call[c].heap, call[c].stack, log[c][Len(log[c])],
                                call[c].pending, rows)} :
         /\ call' = [call EXCEPT ![c] = Settled(@, o)]
         /\ ents' = o.es
         /\ log' = [log EXCEPT ![c][Len(log[c])].done = TRUE, ![c][Len(log[c])].rows = rows]
  /\ UNCHANGED <<cfg, db, ncalls, nwrites, norm>>

\* populateMany of the call c goes on with what it awaited and returns.
RacePopulateManyReturn(c) ==
  /\ call[c].pc = "rows"
  /\ \E o \in {resumePopulateMany(ents, call[c].heap, call[c].stack, call[c].pending)} :
       /\ call' = [call EXCEPT ![c] = Settled(@, o)]
       /\ ents' = o.es
       /\ log' = IF call[c].pending.fetched
                 THEN [log EXCEPT ![c][Len(log[c])].returned =
                         populateManyResult(ents, call[c].pending, PendingPropOf(call[c].pending))]
                 ELSE log
  /\ UNCHANGED <<cfg, db, ncalls, nwrites, norm>>

\* populateField of the call c goes on after populateMany.
RacePopulateFieldResume(c) ==
  /\ call[c].pc = "populated"
  /\ \E o \in {afterPopulateMany(ents, call[c].heap, call[c].stack, call[c].pending.frame,
                                  call[c].pending.pop)} :
       /\ call' = [call EXCEPT ![c] = Settled(@, o)]
       /\ ents' = o.es
  /\ UNCHANGED <<cfg, db, log, ncalls, nwrites, norm>>

\* populateField of the call c calls populate on the children.
RaceNestedPopulate(c) ==
  /\ call[c].pc = "children"
  /\ \E o \in {nestedPopulate(ents, call[c].heap, call[c].stack, call[c].pending)} :
       /\ call' = [call EXCEPT ![c] = Settled(@, o)]
       /\ ents' = o.es
       /\ log' = [log EXCEPT ![c] = Issued(@, o)]
  /\ UNCHANGED <<cfg, db, ncalls, nwrites, norm>>

NextRace ==
  \E c \in Callers :
    \/ RaceStart(c) \/ RaceStep(c) \/ RaceFindChildren(c) \/ RaceFetchReturn(c)
    \/ RacePopulateManyReturn(c) \/ RacePopulateFieldResume(c) \/ RaceNestedPopulate(c)

SpecRace == InitRace /\ [][NextRace]_vars

(***************************************************************************)
(* Properties of the loader.                                               *)
(***************************************************************************)
\* The populate() invocation has returned normally.
DoneOk == call.pc = "done" /\ call.result = "ok"

\* The fetches of the current invocation issued for the field at `path`.
FetchesAt(path) == {i \in DOMAIN log : log[i].path = path}

\* The relation fields at the root of the request of the current invocation.
RootFields ==
  IF call.pc = "idle" THEN {}
  ELSE {f \in {call.populate.list[i].field[1] : i \in DOMAIN call.populate.list} :
          HasProp(call.entityName, f) /\ Prop(call.entityName, f).reference # SCALAR}

\* The caller asked for the field `name` with the JOINED strategy (the callers
\* give a strategy to nodes at the root of the request only).
JoinedRequest(name) ==
  /\ call.pc # "idle"
  /\ \E i \in DOMAIN call.populate.list :
       call.populate.list[i].field = <<name>> /\ call.populate.list[i].strategy = JOINED

\* The inverse side of a one-to-one whose owner is looked up by a separate fetch.
Deferred(prop) ==
  /\ prop.reference = ONE_TO_ONE /\ ~prop.owner /\ ~cfg.autoJoinOneToOneOwner
  /\ ~JoinedRequest(prop.name)

\* Parent e needs work for the relation prop: its collection is not fully
\* loaded, or the entity it refers to is not loaded (or a refresh is asked for).
NeedsWork(es, e, prop, refresh) ==
  LET v == Slot(es, e, prop.name)
  IN CASE prop.reference \in {ONE_TO_MANY, MANY_TO_MANY} ->
            v.tag = "collection" /\ (refresh \/ ~isInitialized(es, v, TRUE))
       [] Deferred(prop) -> refresh \/ ~(v.tag = "entity" /\ es[v.to].initialized)
       [] OTHER -> v.tag = "entity" /\ (refresh \/ ~es[v.to].initialized)

\* The owning side of a many-to-many kept without a pivot table: its fetch is
\* keyed by the items of the collections.
KeyedByItems(prop) == prop.reference = MANY_TO_MANY /\ prop.owner /\ ~usesPivotTable

\* The keys of the items of the collection prop of e.
ItemKeys(es, e, prop) ==
  IF Slot(es, e, prop.name).tag = "collection"
  THEN {x.k : x \in Range(Slot(es, e, prop.name).items)} ELSE {}

\* The keys parent e contributes to the batch of the relation prop.
BatchKeys(es, e, prop) ==
  IF KeyedByItems(prop) THEN ItemKeys(es, e, prop)
  ELSE IF prop.reference \in {ONE_TO_MANY, MANY_TO_MANY} \/ Deferred(prop) THEN {e.k}
  ELSE {Slot(es, e, prop.name).to.k}

\* The root entities that needed work for root field F when the call began.
Qualifying(F) ==
  {e \in Range(call.entities) :
     NeedsWork(call.pre, e, Prop(call.entityName, F), call.opts.refresh)}

\* The keys the root entities that qualify for F contribute to its batch.
QualifyingKeys(F) ==
  UNION {BatchKeys(call.pre, e, Prop(call.entityName, F)) : e \in Qualifying(F)}

\* C1 (amended): populating a relation field F on k parents issues at most one
\* batched fetch for F whatever k is: none for k = 0, and exactly one, whose
\* keys are those of all the qualifying parents together, as soon as one parent
\* qualifies (for the owning side of a many-to-many kept without a pivot table:
\* as soon as the collection of a qualifying parent holds an item); a field no
\* parent qualifies for is fetched at most once as well.
C1_OneBatchedFetch ==
  call.pc # "idle" =>
    /\ \A i, j \in DOMAIN log : log[i].path = log[j].path => i = j
    /\ call.entities = <<>> => log = <<>>
    /\ DoneOk /\ call.normalized =>
         \A F \in RootFields :
           LET prop == Prop(call.entityName, F)
           IN /\ QualifyingKeys(F) # {} =>
                   /\ Cardinality(FetchesAt(<<F>>)) = 1
                   /\ \A i \in FetchesAt(<<F>>) : Range(log[i].ids) = QualifyingKeys(F)
              /\ (QualifyingKeys(F) = {} /\ ~(prop.reference = MANY_TO_MANY /\ usesPivotTable))
                   => FetchesAt(<<F>>) = {}

\* Two parents qualify for a root field and one fetch was issued for both.
C1_Witness ==
  /\ DoneOk /\ call.normalized
  /\ \E F \in RootFields :
       /\ Cardinality(Qualifying(F)) = 2
       /\ Cardinality(FetchesAt(<<F>>)) = 1
       /\ \E i \in FetchesAt(<<F>>) : Cardinality(Range(log[i].ids)) = 2

\* C1 as stated: exactly one batched fetch for F for every k, k = 0 included.
C1_ExactlyOneForEveryK ==
  DoneOk =>
    \A F \in RootFields :
      Len(call.entities) \in {0, 1, 2} => Cardinality(FetchesAt(<<F>>)) = 1

\* C2: a second populate call in a row on the same entities with the same spec
\* and refresh = false issues no fetch at all, whatever the kind of the relation
\* and also when the first fetch found no row for some parent.
C2_SecondCallIssuesNoFetch ==
  (call.pc # "idle" /\ call.repeat /\ ~call.opts.refresh) => log = <<>>

\* The children a completed fetch returned for parent e of the relation prop:
\* the rows of the pivot table for the key of e, the rows whose inverse field
\* holds the key of e, or, for a fetch keyed by the items of the collection of
\* e, those of its items that are among the rows.
ReturnedFor(fetch, e, prop) ==
  IF fetch.kind = "pivot"
  THEN Instances(prop.type, fetch.rows[IndexOf(fetch.ids, e.k)])
  ELSE IF prop.reference = ONE_TO_MANY
  THEN Instances(prop.type,
                 SelectSeq(fetch.rows, LAMBDA r : FkValue(prop.type, prop.mappedBy, r) = e.k))
  ELSE IF ~prop.owner
  THEN Instances(prop.type, SelectSeq(fetch.rows, LAMBDA r : Contains(db.pivot[r], e.k)))
  ELSE SelectSeq(Slot(ents, e, prop.name).items, LAMBDA x : Contains(fetch.rows, x.k))

NoDuplicates(s) == \A i, j \in DOMAIN s : s[i] = s[j] => i = j

\* The root entities whose collection F was loaded when the call began.
LoadedBefore(F) ==
  {e \in Range(call.entities) :
     Slot(call.pre, e, F).tag = "collection" /\ Slot(call.pre, e, F).initialized}

\* C3: after populate with refresh = true, a collection that was loaded before
\* the call holds exactly the children the new fetch returned for its parent,
\* each once: what was loaded earlier and is not in the new result is gone.
C3_RefreshReplaces ==
  (DoneOk /\ call.normalized /\ call.opts.refresh) =>
    \A F \in RootFields :
      Prop(call.entityName, F).reference \in {ONE_TO_MANY, MANY_TO_MANY} =>
        \A e \in LoadedBefore(F) :
          /\ NoDuplicates(Slot(ents, e, F).items)
          /\ \E i \in FetchesAt(<<F>>) :
               /\ log[i].done
               /\ Slot(ents, e, F).items = ReturnedFor(log[i], e, Prop(call.entityName, F))

\* C4: there is at most one in-memory instance per entity type and primary key,
\* and every reference and every collection item, those made on the pivot path
\* included, is that one instance.
C4_OneInstancePerKey ==
  /\ \A i, j \in DOMAIN ents : (i.t = j.t /\ i.k = j.k) => i = j
  /\ \A e \in DOMAIN ents : \A f \in DOMAIN ents[e].slots :
       LET v == ents[e].slots[f]
       IN /\ v.tag = "entity" => v.to \in DOMAIN ents /\ v.to = Inst(v.to.t, v.to.k)
          /\ v.tag = "collection" =>
               \A x \in Range(v.items) : x \in DOMAIN ents /\ x = Inst(x.t, x.k)

\* One permission was loaded through the pivot table for two different parents.
C4_Witness ==
  /\ DoneOk
  /\ \E a, b \in DOMAIN ents :
       /\ a # b /\ a.t = "UserAccessProfile" /\ b.t = "UserAccessProfile"
       /\ Slot(ents, a, "permissions").tag = "collection"
       /\ Slot(ents, b, "permissions").tag = "collection"
       /\ Slot(ents, a, "permissions").initialized
       /\ Slot(ents, b, "permissions").initialized
       /\ Range(Slot(ents, a, "permissions").items)
             \cap Range(Slot(ents, b, "permissions").items) # {}

\* The entities found in the slots `field` of the parents.
InSlots(es, parents, field) ==
  UNION {LET v == Slot(es, parents[i], field)
         IN IF v.tag = "entity" THEN {v.to}
            ELSE IF v.tag = "collection" THEN Range(v.items)
            ELSE {} : i \in DOMAIN parents}

\* path is a proper prefix of longer.
IsPrefix(path, longer) ==
  Len(path) < Len(longer) /\ SubSeq(longer, 1, Len(path)) = path

\* The relation prop of entity x is loaded.
Loaded(es, x, prop) ==
  LET v == Slot(es, x, prop.name)
  IN /\ v.tag = "collection" => v.initialized
     /\ v.tag = "entity" => es[v.to].initialized

\* C5: a fetch for a nested field is issued only after the fetch for its parent
\* field has completed, a nested populate works on exactly the entities found in
\* the slots of its parents, the keys of its fetch are taken from them, and so
\* when the call returns every entity under a requested path `a.b` has b loaded.
C5_ChildAfterParent ==
  call.pc # "idle" =>
    /\ \A i \in DOMAIN log : i < Len(log) => log[i].done
    /\ \A i, j \in DOMAIN log :
         IsPrefix(log[j].path, log[i].path) => j < i /\ log[j].done
    /\ \A d \in DOMAIN call.stack :
         d > 1 =>
           Range(call.stack[d].entities) =
             InSlots(ents, call.stack[d - 1].entities,
                     call.stack[d].path[Len(call.stack[d].path)])
    /\ (call.pc = "await" /\ Len(call.stack) > 1) =>
         LET f == call.pending.frame
             prop == Prop(f.entityName, call.pending.pop.field[1])
         IN Range(log[Len(log)].ids) \subseteq UNION {BatchKeys(ents, e, prop) : e \in Range(f.entities)}
    /\ (DoneOk /\ call.normalized) =>
         \A n \in DOMAIN call.populate.list :
           LET field == call.populate.list[n].field
           IN /\ Len(field) > 1 =>
                   \A x \in InSlots(ents, call.entities, field[1]) :
                     Loaded(ents, x, Prop(Prop(call.entityName, field[1]).type, field[2]))
              /\ Len(field) > 2 =>
                   \A x \in InSlots(ents, call.entities, field[1]) :
                     \A y \in InSlots(ents, <<x>>, field[2]) :
                       Loaded(ents, y,
                              Prop(Prop(Prop(call.entityName, field[1]).type, field[2]).type,
                                   field[3]))

\* A nested fetch is awaited: its parent field was fetched before and its keys
\* are those of the entities that fetch loaded.
C5_Witness ==
  /\ call.pc = "await" /\ Len(call.stack) > 1
  /\ \E j \in DOMAIN log :
       /\ IsPrefix(log[j].path, log[Len(log)].path)
       /\ log[j].done /\ log[j].rows # <<>>
  /\ log[Len(log)].ids # <<>>

\* The call has failed with the error of a fetch.
FetchFailed == call.pc = "done" /\ call.result = FetchError

\* The root fields of the request in the order populate visits them.
RootOrder ==
  Unique([i \in DOMAIN call.populate.list |-> call.populate.list[i].field[1]])

\* The root fields populate had completed before the field whose fetch failed.
CompletedBeforeFailure ==
  {RootOrder[i] : i \in {j \in DOMAIN RootOrder :
                            j < IndexOf(RootOrder, log[Len(log)].path[1])}}

\* The root field populate was at when the fetch failed, and the root fields
\* after it.
FailedOrLater ==
  {RootOrder[i] : i \in {j \in DOMAIN RootOrder :
                            j >= IndexOf(RootOrder, log[Len(log)].path[1])}}

\* The collection F of the root entity e holds what the completed fetch returned
\* for e; the items a fetch keyed by them returned are loaded.
HoldsReturned(fetch, e, F) ==
  IF KeyedByItems(Prop(call.entityName, F))
  THEN \A x \in Range(Slot(ents, e, F).items) : Contains(fetch.rows, x.k) => ents[x].initialized
  ELSE Contains(fetch.ids, e.k) =>
         Slot(ents, e, F).items = ReturnedFor(fetch, e, Prop(call.entityName, F))

\* After a failed fetch: the failed fetch is the last one issued and the only one
\* that did not complete, and the collections of the fields completed before
\* it are initialized and hold what their fetch returned.
EarlierFieldsKept ==
  FetchFailed =>
    /\ log # <<>>
    /\ \A i \in DOMAIN log : log[i].done <=> i < Len(log)
    /\ \A F \in CompletedBeforeFailure \cap RootFields :
         \A e \in Range(call.entities) :
           Slot(ents, e, F).tag = "collection" =>
             /\ Slot(ents, e, F).initialized
             /\ \A i \in FetchesAt(<<F>>) : HoldsReturned(log[i], e, F)

\* A completed fetch of the call has loaded the collection F of e: it was issued
\* for the relation F of the type of e with the key of e.
LoadedByEarlierFetch(e, F) ==
  \E i \in DOMAIN log :
    /\ log[i].done
    /\ log[i].path[Len(log[i].path)] = F
    /\ log[i].type = Prop(e.t, F).type
    /\ Contains(log[i].ids, e.k)

\* After a failed fetch the collections of the failed field and of the later
\* fields are initialized only when they were before the call, with the same
\* contents, or when a fetch of an earlier field has loaded them.
LaterFieldsUntouched ==
  FetchFailed =>
    \A F \in FailedOrLater \cap RootFields :
      \A e \in Range(Tracked(call.entities)) :
        (Slot(ents, e, F).tag = "collection" /\ Slot(ents, e, F).initialized) =>
          \/ /\ Slot(call.pre, e, F).tag = "collection"
             /\ Slot(call.pre, e, F).initialized
             /\ Slot(call.pre, e, F).items = Slot(ents, e, F).items
          \/ LoadedByEarlierFetch(e, F)

\* The step in which an awaited fetch does not complete: the call fails with the
\* error of the fetch, no fetch is issued and no entity or collection changes.
C6_FailureStep ==
  (call.pc = "await" /\ call'.pc # "await" /\ ~log'[Len(log)].done) =>
    /\ call'.pc = "done" /\ call'.result = FetchError
    /\ log' = log
    /\ ents' = ents

\* C6 (amended): when the fetch for a field fails, populate fails with that
\* error and issues no further fetch (no retry, no later field); the
\* collections of the fields completed earlier stay initialized with their
\* contents, and the failed fetch changes no entity and no collection: those of
\* the failed field and of the later fields stay as they were when the fetch
\* was issued, initialized only when they were loaded before the call or by a
\* fetch of an earlier field.
C6_FetchFailure ==
  /\ [](EarlierFieldsKept /\ LaterFieldsUntouched)
  /\ [][C6_FailureStep]_vars

\* The fetch of a field failed under refresh: the collection of the failed
\* field, loaded by an earlier call, is still initialized with its contents.
C6_Witness ==
  /\ FetchFailed /\ call.opts.refresh
  /\ Len(log[Len(log)].path) = 1
  /\ \E e \in Range(call.entities) :
       /\ Slot(ents, e, log[Len(log)].path[1]).tag = "collection"
       /\ Slot(ents, e, log[Len(log)].path[1]).initialized
       /\ Slot(ents, e, log[Len(log)].path[1]).items # <<>>
       /\ Contains(log[Len(log)].ids, e.k)

\* C6 as stated: after a failed fetch the collections of the fields completed
\* earlier are initialized with their loaded contents, and the collections of
\* the failed field and of all later fields are uninitialized.
C6_LaterUninitialized ==
  /\ EarlierFieldsKept
  /\ FetchFailed =>
       \A F \in FailedOrLater \cap RootFields :
         \A e \in Range(Tracked(call.entities)) :
           Slot(ents, e, F).tag = "collection" => ~Slot(ents, e, F).initialized

\* The heads of the requested fields that are no property of the root entity.
UnknownHeads ==
  SelectSeq([i \in DOMAIN call.populate.list |-> call.populate.list[i].field[1]],
            LAMBDA f : ~HasProp(call.entityName, f))

\* C7: with validation enabled, a requested field whose name, or whose head
\* segment when it is a dotted path, is no property of the root entity makes
\* populate fail with ValidationError invalid-property-name naming the first
\* such field, before any fetch is issued and before any entity is modified.
C7_InvalidPropertyName ==
  (/\ call.pc # "idle"
   /\ call.opts.validate
   /\ call.entities # <<>> /\ ~hasUndiscovered(call.entities)
   /\ UnknownHeads # <<>>) =>
    /\ call.pc = "done"
    /\ call.result = InvalidPropertyName
    /\ call.field = <<UnknownHeads[1]>>
    /\ log = <<>>
    /\ ents = call.pre

\* C8: for a non-empty entity list and a non-empty populate spec, a root entity
\* that is no tracked instance makes populate fail with ValidationError
\* not-discovered-entity before the spec is normalized, before any fetch is
\* issued and without any entity being modified.
C8_NotDiscoveredEntity ==
  (/\ call.pc # "idle"
   /\ call.entities # <<>>
   /\ ~(call.populate.list = <<>> /\ ~call.populate.isTrue)
   /\ \E i \in DOMAIN call.entities : call.entities[i].k = 0) =>
    /\ call.pc = "done"
    /\ call.result = NotDiscoveredEntity
    /\ ~call.normalized
    /\ log = <<>>
    /\ ents = call.pre

\* populate was called with a tracked entity followed by an object that is none.
C8_Witness ==
  /\ call.pc = "done"
  /\ call.result = NotDiscoveredEntity
  /\ Len(call.entities) = 2
  /\ call.entities[1].k # 0 /\ call.entities[2].k = 0
  /\ call.entities[1] \in DOMAIN ents

\* C9: populate called with an empty entity list or with an empty populate spec
\* returns successfully: no fetch is issued, no validation error is raised, the
\* spec is not normalized, and no entity, collection or serialization context
\* is changed.
C9_NoOp ==
  (/\ call.pc # "idle"
   /\ \/ call.entities = <<>>
      \/ (call.populate.list = <<>> /\ ~call.populate.isTrue)) =>
    /\ call.pc = "done"
    /\ call.result = "ok"
    /\ ~call.normalized
    /\ log = <<>>
    /\ ents = call.pre

\* populate has returned from a call with an empty spec on a loaded entity whose
\* serialization context is still unset.
C9_Witness ==
  /\ DoneOk
  /\ call.populate.list = <<>>
  /\ \E e \in Range(call.entities) : e \in DOMAIN ents /\ ~ents[e].ser

\* The first node of a normalized spec whose field is f.
NodeFor(list, f) ==
  list[CHOOSE i \in DOMAIN list : list[i].field = f /\ \A j \in 1..(i - 1) : list[j].field # f]

\* The request normalized was ["a", "a.b"].
IsPlainThenDotted(request) ==
  /\ ~request.isTrue
  /\ Len(request.list) = 2
  /\ \A i \in 1..2 : request.list[i] = FieldNode(request.list[i].field)
  /\ Len(request.list[1].field) = 1
  /\ Len(request.list[2].field) = 2
  /\ request.list[2].field[1] = request.list[1].field[1]

\* C10: normalizing ["a", "a.b"] yields exactly one top-level node for a, and it
\* is the node normalizing ["a.b"] yields for a (same field, strategy, all flag
\* and children), with the eager lookup enabled and disabled.
C10_MergeLaw ==
  (norm.phase = "out" /\ IsPlainThenDotted(norm.populate)) =>
    LET a == norm.populate.list[1].field
        dotted == Normalized(norm.entityName, RequestList(<<norm.populate.list[2]>>),
                                    norm.strategy, norm.lookup)
    IN /\ Cardinality({i \in DOMAIN norm.out : norm.out[i].field = a}) = 1
       /\ NodeFor(norm.out, a) = NodeFor(dotted, a)

(***************************************************************************)
(* Properties of the normalizer.                                           *)
(***************************************************************************)
\* The nodes normalizePopulate hands to mergeNestedPopulate (after line 97).
Expanded == ExpandedNodes(norm.entityName, norm.populate, norm.strategy, norm.lookup)

\* The paths of a populate tree, each the sequence of the fields from a
\* top-level node down to a node.
RECURSIVE TreePaths(_)
TreePaths(list) ==
  UNION { {<<list[i].field>>} \cup
          {<<list[i].field>> \o p : p \in TreePaths(list[i].children.list)} : i \in DOMAIN list }

\* No two siblings have the same field, at every level of the tree.
RECURSIVE UniqueSiblings(_)
UniqueSiblings(list) ==
  /\ \A i, j \in DOMAIN list : list[i].field = list[j].field => i = j
  /\ \A i \in DOMAIN list : UniqueSiblings(list[i].children.list)

\* C11: in the result of normalizePopulate no two sibling nodes have the same
\* field at any level, and the merged tree has exactly the paths of the nodes
\* that were merged: the children of a merged node are the union of the children
\* of all the nodes of its field, merged in turn, and no child is lost.
C11_MergedTree ==
  norm.phase = "out" =>
    /\ UniqueSiblings(norm.out)
    /\ TreePaths(norm.out) = TreePaths(Expanded)

\* No two siblings of the result have the same field, at every level.
C11_UniqueSiblings == norm.phase = "out" => UniqueSiblings(norm.out)

\* No node of the tree, at any depth, is named after a member of
\* Object.prototype.
RECURSIVE NoInheritedNames(_)
NoInheritedNames(list) ==
  \A i \in DOMAIN list : ~IsMember(list[i].field) /\ NoInheritedNames(list[i].children.list)

\* Every path of the nodes that were merged is a path of the result, when no
\* node is named after a member of Object.prototype.
C11_NothingLost ==
  (norm.phase = "out" /\ NoInheritedNames(Expanded)) =>
    TreePaths(Expanded) \subseteq TreePaths(norm.out)

\* The request is true or holds a node with all set (line 75).
IsAllRequest(request) == request.isTrue \/ \E i \in DOMAIN request.list : request.list[i].all

\* The relations of a type whose target is the type itself.
SelfReferencing(t) == {i \in DOMAIN Relations(t) : Prop(t, Relations(t)[i]).type = t}

\* C12 (safety part): the eager lookup never has a type twice on its path, so
\* its depth is bounded by the number of types; what it returns is what
\* normalizePopulate works on; and an "all" populate on a self-referencing type
\* yields a node without children for the self-referencing relation.
C12_NoTypeTwice ==
  /\ norm.phase = "walk" =>
       /\ \A i, j \in DOMAIN norm.stack :
            norm.stack[i].entityName = norm.stack[j].entityName => i = j
       /\ \A i \in DOMAIN norm.stack :
            norm.stack[i].visited = [k \in 1..i |-> norm.stack[k].entityName]
       /\ Len(norm.stack) <= Cardinality(Types \cup TreeTypes)
  /\ norm.phase = "walked" =>
       /\ norm.ret = LookedUp(norm.entityName, norm.populate, norm.strategy, TRUE)
       /\ IsAllRequest(norm.populate) =>
            \A r \in SelfReferencing(norm.entityName) :
              \A k \in DOMAIN ExpandedAndMerged(norm.entityName, norm.ret) :
                ExpandedAndMerged(norm.entityName, norm.ret)[k].field = <<Relations(norm.entityName)[r]>>
                  => ExpandedAndMerged(norm.entityName, norm.ret)[k].children.list = <<>>

EagerRelations(t) == {name \in Range(Relations(t)) : Prop(t, name).eager}

\* The names lookupAllRelationships gives the relations of the type t.
RelationPaths(t) == {getRelationName(t, r) : r \in Range(Relations(t))}

\* The first segments of these names that no plain object inherits.
RelationHeads(t) == {<<n[1]>> : n \in RelationPaths(t)} \ {f \in {<<n[1]>> : n \in RelationPaths(t)} : IsMember(f)}

\* The names of the relations of t that begin with the field `field`, and
\* their proper prefixes, as paths of a populate tree.
PathsBelow(t, field) ==
  UNION { { [k \in 1..j |-> <<n[k]>>] : j \in 1..Len(n) } :
            n \in {m \in RelationPaths(t) : <<m[1]>> = field} }

\* The second segments of the names of the relations of t that begin with the
\* field `field`.
Remainders(t, field) ==
  {n[2] : n \in {m \in RelationPaths(t) : Len(m) > 1 /\ <<m[1]>> = field}}

\* The first segments of the names of the eager relations of the target type
\* of the relation of t named by `field`; none when `field` names no relation.
EagerHeads(t, field) ==
  IF field[1] \in Range(Relations(t))
  THEN {getRelationName(Prop(t, field[1]).type, e)[1] :
          e \in EagerRelations(Prop(t, field[1]).type)}
  ELSE {}

RECURSIVE HoldsEager(_, _, _)
HoldsEager(list, t, visited) ==
  /\ \A e \in EagerRelations(t) : \E i \in DOMAIN list : list[i].field = <<e>>
  /\ \A i \in DOMAIN list :
       (Len(list[i].field) = 1 /\ HasProp(t, list[i].field[1])) =>
         \/ ~HasMeta(Prop(t, list[i].field[1]).type)
         \/ Prop(t, list[i].field[1]).type \in visited \cup {t}
         \/ HoldsEager(list[i].children.list, Prop(t, list[i].field[1]).type, visited \cup {t})

\* The children the caller gave to the nodes of the request are in the nodes of
\* the result.
CallerChildrenKept ==
  \A i \in DOMAIN norm.populate.list :
    (Len(norm.populate.list[i].field) = 1 /\ norm.populate.list[i].children.def) =>
      \E k \in DOMAIN norm.out :
        /\ norm.out[k].field = norm.populate.list[i].field
        /\ TreePaths(norm.populate.list[i].children.list) \subseteq TreePaths(norm.out[k].children.list)

\* C14: with the eager lookup, the normalized tree holds every eager relation of
\* the root type at the top level and, under the node of every relation it
\* includes, the eager relations of that relation's target type, down to the
\* first type already visited on the path; the children the caller specified for
\* a requested relation are still in its node.
C14_EagerIncluded ==
  (norm.phase = "out" /\ norm.lookup) =>
    /\ HoldsEager(norm.out, norm.entityName, {})
    /\ ~IsAllRequest(norm.populate) => CallerChildrenKept

\* No node of the request, at any depth, names its relation with dot syntax.
RECURSIVE NoDotted(_)
NoDotted(list) ==
  \A i \in DOMAIN list : Len(list[i].field) = 1 /\ NoDotted(list[i].children.list)

\* The eager relations are all there when the request uses no dot syntax and
\* names no member of Object.prototype.
C14_UndottedHolds ==
  (norm.phase = "out" /\ norm.lookup /\ NoDotted(norm.populate.list)
     /\ NoInheritedNames(norm.populate.list)) =>
    /\ HoldsEager(norm.out, norm.entityName, {})
    /\ ~IsAllRequest(norm.populate) => CallerChildrenKept

\* A relation requested with dot syntax whose target type has an eager relation
\* has been normalized with the eager lookup.
C14_DottedRequest ==
  /\ norm.phase = "out" /\ norm.lookup
  /\ \E i \in DOMAIN norm.populate.list :
       /\ Len(norm.populate.list[i].field) = 2
       /\ HasProp(norm.entityName, norm.populate.list[i].field[1])
       /\ EagerRelations(Prop(norm.entityName, norm.populate.list[i].field[1]).type) # {}

(***************************************************************************)
(* Properties of the pivot-table load and of the batch.                    *)
(***************************************************************************)
\* populate(['accessProfile.permissions']) is running or has run on a list of one
\* User whose accessProfile was a reference still to be loaded (or is refreshed).
GH3177 ==
  /\ call.pc # "idle"
  /\ call.entityName = "User"
  /\ Len(call.entities) = 1 /\ HasHelper(call.entities[1])
  /\ call.populate = RequestList(<<FieldNode(<<"accessProfile", "permissions">>)>>)
  /\ usesPivotTable
  /\ NeedsWork(call.pre, call.entities[1], Prop("User", "accessProfile"), call.opts.refresh)

\* The access profile of the one User of the call.
ProfileOfUser == Slot(ents, call.entities[1], "accessProfile")

\* C15: populating ['accessProfile.permissions'] on a list of one User issues
\* exactly 2 fetches, first the fetch for accessProfile and then the pivot fetch
\* for permissions, and leaves the permissions collection of the User's access
\* profile initialized with exactly the rows the pivot fetch returned, in order.
C15_TwoFetches ==
  GH3177 =>
    /\ Len(log) <= 2
    /\ Len(log) >= 1 =>
         /\ log[1].kind = "find" /\ log[1].type = "UserAccessProfile"
         /\ log[1].key = "id" /\ log[1].path = <<"accessProfile">>
         /\ log[1].ids = <<Slot(call.pre, call.entities[1], "accessProfile").to.k>>
    /\ Len(log) = 2 =>
         /\ log[1].done
         /\ log[2].kind = "pivot" /\ log[2].type = "Permission"
         /\ log[2].path = <<"accessProfile", "permissions">>
         /\ log[2].ids = log[1].rows
    /\ DoneOk =>
         /\ Len(log) = 2
         /\ ProfileOfUser.tag = "entity"
         /\ Slot(ents, ProfileOfUser.to, "permissions").tag = "collection"
         /\ Slot(ents, ProfileOfUser.to, "permissions").initialized
         /\ Slot(ents, ProfileOfUser.to, "permissions").items =
              Instances("Permission", log[2].rows[1])

\* The scenario has run to its end and the pivot fetch returned the three
\* permissions of the access profile.
C15_Witness ==
  /\ GH3177 /\ DoneOk
  /\ Len(log) = 2 /\ log[2].rows = <<(<<1, 2, 3>>)>>
  /\ Slot(ents, ProfileOfUser.to, "permissions").items =
       <<Inst("Permission", 1), Inst("Permission", 2), Inst("Permission", 3)>>

\* The pivot load the call was waiting for has returned its rows, and in this
\* step findChildrenFromPivotTable goes on with them and returns.
PivotReturns ==
  /\ call.pc = "rows" /\ call.pending.fetched /\ log[Len(log)].kind = "pivot"
  /\ call'.pc = "populated"

\* After the step, the collection of every parent of the batch holds the entities
\* of the raw rows returned for its key, in the order of the rows, and the list
\* returned is the concatenation of these lists in parent order.
PivotLoaded ==
  LET parents == call.pending.filtered
      field == call.pending.pop.field[1]
      fetch == log'[Len(log)]
  IN /\ Len(fetch.rows) = Len(parents)
     /\ \A j \in DOMAIN parents :
          /\ ents'[parents[j]].slots[field].tag = "collection"
          /\ ents'[parents[j]].slots[field].initialized
          /\ ents'[parents[j]].slots[field].items = Instances(fetch.type, fetch.rows[j])
     /\ fetch.returned = Flatten([j \in DOMAIN parents |-> Instances(fetch.type, fetch.rows[j])])

\* C16: after a pivot-table load, the collection of each parent holds the
\* entities resolved from the raw rows the pivot fetch returned for that parent's
\* key, in exactly the order of those rows, and the operation returns the
\* concatenation of these per-parent lists in parent order.
C16_PivotOrder == [][PivotReturns => PivotLoaded]_vars

\* A pivot load for two parents has just returned: three rows for the first
\* parent, two rows out of primary-key order for the second.
C16_Witness ==
  /\ log # <<>>
  /\ log[Len(log)].kind = "pivot" /\ log[Len(log)].done
  /\ log[Len(log)].ids = <<1, 2>>
  /\ log[Len(log)].rows = <<(<<1, 2, 3>>), (<<3, 1>>)>>
  /\ log[Len(log)].returned =
       <<Inst("Permission", 1), Inst("Permission", 2), Inst("Permission", 3),
         Inst("Permission", 3), Inst("Permission", 1)>>
  /\ Slot(ents, Inst("UserAccessProfile", 2), "permissions").items =
       <<Inst("Permission", 3), Inst("Permission", 1)>>

(***************************************************************************)
(* Properties of the condition and of the field list of a fetch.           *)
(***************************************************************************)
\* The rows of a table with the columns CondKeys; -1 stands for null.
CondRows == [CondKeys -> {-1} \cup 0..MaxPk]

MatchesValue(x, c) ==
  CASE c.tag = "number" -> x = c.v[1]
    [] c.tag = "null" -> x = -1
    [] OTHER -> Contains(c.v, x)

\* The row satisfies every key of the dictionary.
MatchesDictionary(row, d) == \A k \in DOMAIN d : MatchesValue(row[k], d[k])

\* The row satisfies the condition handed to the fetch.
Matches(row, cond) == \A i \in DOMAIN cond.conds : MatchesDictionary(row, cond.conds[i])

\* C17: for every caller-supplied condition and every batch id list, the
\* condition passed to the fetch restricts the batch key to the batch ids and
\* applies the caller's condition; the two are combined with $and when the
\* caller's condition targets the batch key and shallow-merged otherwise, and the
\* batch restriction is never discarded, whatever value the caller gave the key.
C17_KeepsBoth ==
  norm.phase = "merged" =>
    /\ \A row \in CondRows :
         Matches(row, norm.out) <=>
           (Contains(norm.ids, row[norm.pk]) /\ MatchesDictionary(row, norm.where))
    /\ norm.out.and <=> (norm.pk \in DOMAIN norm.where)

\* Both are kept whenever the caller gave the batch key no value or a truthy one.
C17_TruthyHolds ==
  (norm.phase = "merged" /\ (norm.pk \in DOMAIN norm.where => TruthyValue(norm.where[norm.pk]))) =>
    /\ \A row \in CondRows :
         Matches(row, norm.out) <=>
           (Contains(norm.ids, row[norm.pk]) /\ MatchesDictionary(row, norm.where))
    /\ norm.out.and <=> (norm.pk \in DOMAIN norm.where)

\* The places of the fields option that apply to the property `name`: a dotted
\* string whose head is the name (place <<i, 0>>), or member j of a grouping
\* keyed by the name (place <<i, j>>).
AppliedPlaces(fields, name) ==
  {<<i, 0>> : i \in {k \in DOMAIN fields : /\ ~fields[k].obj
                                             /\ Len(fields[k].parts) > 1
                                             /\ fields[k].parts[1] = name}}
  \cup UNION {{<<i, j>> : j \in DOMAIN fields[i].groups[name]} :
                i \in {k \in DOMAIN fields : fields[k].obj /\ name \in DOMAIN fields[k].groups}}

\* The field a place stands for: the string without its head, or the member.
AppliedAt(fields, name, place) ==
  IF place[2] = 0 THEN Tail(fields[place[1]].parts)
  ELSE fields[place[1]].groups[name][place[2]]

AppliedValues(fields, name) ==
  {AppliedAt(fields, name, place) : place \in AppliedPlaces(fields, name)}

AppliedCount(fields, name, x) ==
  Cardinality({place \in AppliedPlaces(fields, name) : AppliedAt(fields, name, place) = x})

Count(list, x) == Cardinality({i \in DOMAIN list : list[i] = x})

\* The property the fields were built for, and the foreign key of its inverse side.
BuiltProp == Prop(norm.entityName, norm.field)

InverseKey == <<BuiltProp.mappedBy>>

\* The result is undefined exactly when nothing applies to the property, and
\* otherwise it holds the fields that apply, each as often as it is given.
OnlyApplied(extra) ==
  /\ norm.out.def <=> AppliedPlaces(norm.fields, norm.field) # {}
  /\ norm.out.def =>
       \A x \in (AppliedValues(norm.fields, norm.field) \cup Range(norm.out.list)) \ extra :
         Count(norm.out.list, x) = AppliedCount(norm.fields, norm.field, x)

\* C18 (amended): buildFields returns undefined exactly when no entry applies
\* to prop (no dotted string with the head prop.name and no member of a
\* grouping keyed by prop.name); otherwise it returns the entries that apply
\* and nothing else, and for a ONE_TO_MANY prop the inverse foreign-key field is
\* in the result: once when the entries that apply do not name it or name it
\* once, and otherwise as often as they name it.
C18_FieldsOfProp ==
  norm.phase = "built" =>
    /\ OnlyApplied(IF BuiltProp.reference = ONE_TO_MANY THEN {InverseKey} ELSE {})
    /\ (norm.out.def /\ BuiltProp.reference = ONE_TO_MANY) =>
         /\ Contains(norm.out.list, InverseKey)
         /\ IF AppliedCount(norm.fields, norm.field, InverseKey) = 0
            THEN Count(norm.out.list, InverseKey) = 1
            ELSE Count(norm.out.list, InverseKey) =
                   AppliedCount(norm.fields, norm.field, InverseKey)

\* The fields of a ONE_TO_MANY relation were built from a grouping that does not
\* name the inverse foreign key, which was appended.
C18_Witness ==
  /\ norm.phase = "built"
  /\ BuiltProp.reference = ONE_TO_MANY
  /\ norm.fields = <<ObjectField([k \in {"users"} |-> <<(<<"id">>)>>]), StringField(<<"accessProfile", "id">>)>>
  /\ norm.out = Fields(<<(<<"id">>), (<<"accessProfile">>)>>)

\* C18 as stated: for a ONE_TO_MANY prop the result holds the inverse foreign-key
\* field exactly once.
C18_ExactlyOnce ==
  norm.phase = "built" =>
    /\ OnlyApplied(IF BuiltProp.reference = ONE_TO_MANY THEN {InverseKey} ELSE {})
    /\ (norm.out.def /\ BuiltProp.reference = ONE_TO_MANY) =>
         Count(norm.out.list, InverseKey) = 1

(***************************************************************************)
(* Properties of the batch of a relation.                                  *)
(***************************************************************************)
\* This step of populateMany issues the fetch of a relation.
IssuesFetch ==
  /\ call.pc = "where" /\ call'.pc = "await"
  /\ Prop(call'.pending.frame.entityName, call'.pending.pop.field[1]).reference # SCALAR

\* The relation the fetch is issued for, its parents and the fetch.
BatchProp == Prop(call'.pending.frame.entityName, call'.pending.pop.field[1])

BatchParents == Range(call'.pending.frame.entities)

BatchFetch == log'[Len(log')]

\* The batch is keyed by the parents' own primary keys.
KeyedByParent(prop) ==
  prop.reference \in {ONE_TO_MANY, MANY_TO_MANY} \/ Deferred(prop)

\* Parent e has a key in the batch.
InBatch(e, prop) ==
  IF KeyedByParent(prop) THEN Contains(BatchFetch.ids, e.k)
  ELSE /\ Slot(ents, e, prop.name).tag = "entity"
       /\ Contains(BatchFetch.ids, Slot(ents, e, prop.name).to.k)

\* With refresh the slot of e holds a truthy value; without, it is a collection
\* that is not initialized or a reference that is not resolved.
SlotNeedsWorkAsStated(e, prop, refresh) ==
  IF refresh THEN Truthy(Slot(ents, e, prop.name))
  ELSE \/ /\ Slot(ents, e, prop.name).tag = "collection"
          /\ ~Slot(ents, e, prop.name).initialized
       \/ /\ Slot(ents, e, prop.name).tag = "entity"
          /\ ~ents[Slot(ents, e, prop.name).to].initialized

\* With refresh the slot of e holds a truthy value; without, it is a collection
\* that is not fully initialized (not initialized, or holding an item that is
\* not loaded) or a reference that is not resolved.
SlotNeedsWork(e, prop, refresh) ==
  IF refresh THEN Truthy(Slot(ents, e, prop.name))
  ELSE \/ /\ Slot(ents, e, prop.name).tag = "collection"
          /\ ~isInitialized(ents, Slot(ents, e, prop.name), TRUE)
       \/ /\ Slot(ents, e, prop.name).tag = "entity"
          /\ ~ents[Slot(ents, e, prop.name).to].initialized

\* C19: the parents included in the batch for a field are, with refresh, the
\* parents whose slot holds a truthy value and, without refresh, exactly the
\* parents whose slot is an uninitialized collection or an unresolved reference;
\* no parent whose slot is an initialized collection or entity contributes a key
\* when refresh is false.  (Looked at on the batches that hold keys of parents
\* or of their references.)
C19_BatchParents ==
  [][(IssuesFetch /\ ~KeyedByItems(BatchProp)) =>
       \A e \in BatchParents :
         InBatch(e, BatchProp) <=>
           SlotNeedsWorkAsStated(e, BatchProp, call.stack[Len(call.stack)].opts.refresh)]_vars

\* C19 (amended): the parents included in the batch of a relation are, with
\* refresh, the parents whose slot holds a truthy value and, without refresh,
\* the parents whose slot is a collection that is not fully initialized or an
\* unresolved reference; for the inverse side of a one-to-one that is looked up
\* by a fetch of its own they are, with refresh, all the parents and, without
\* refresh, the parents whose slot is not an initialized entity, an empty slot
\* included.  For the owning side of a many-to-many kept without a pivot table
\* the batch holds the keys of the items of the collections of these parents.
C19_BatchOfField ==
  [][IssuesFetch =>
       IF KeyedByItems(BatchProp)
       THEN Range(BatchFetch.ids) =
              UNION {ItemKeys(ents, e, BatchProp) :
                       e \in {p \in BatchParents :
                                SlotNeedsWork(p, BatchProp,
                                              call.stack[Len(call.stack)].opts.refresh)}}
       ELSE \A e \in BatchParents :
              InBatch(e, BatchProp) <=>
                IF Deferred(BatchProp)
                THEN \/ call.stack[Len(call.stack)].opts.refresh
                     \/ ~(/\ Slot(ents, e, BatchProp.name).tag = "entity"
                           /\ ents[Slot(ents, e, BatchProp.name).to].initialized)
                ELSE SlotNeedsWork(e, BatchProp, call.stack[Len(call.stack)].opts.refresh)]_vars

\* A fetch without refresh is awaited for two parents of a one-to-many relation:
\* the one whose collection is not initialized is in the batch, the one whose
\* collection is loaded is not.
C19_Witness ==
  /\ call.pc = "await"
  /\ ~call.pending.frame.opts.refresh
  /\ Prop(call.pending.frame.entityName, call.pending.pop.field[1]).reference = ONE_TO_MANY
  /\ \E e1, e2 \in Range(call.pending.frame.entities) :
       /\ ~Slot(ents, e1, call.pending.pop.field[1]).initialized
       /\ Contains(log[Len(log)].ids, e1.k)
       /\ Slot(ents, e2, call.pending.pop.field[1]).initialized
       /\ ~Contains(log[Len(log)].ids, e2.k)

\* No parent whose slot is loaded contributes a key when refresh is false.
C19_LoadedSkipped ==
  [][(IssuesFetch /\ ~KeyedByItems(BatchProp) /\ ~call.stack[Len(call.stack)].opts.refresh) =>
       \A e \in BatchParents :
         (\/ /\ Slot(ents, e, BatchProp.name).tag = "collection"
             /\ isInitialized(ents, Slot(ents, e, BatchProp.name), TRUE)
          \/ /\ Slot(ents, e, BatchProp.name).tag = "entity"
             /\ ents[Slot(ents, e, BatchProp.name).to].initialized) => ~InBatch(e, BatchProp)]_vars

\* The parents of the batch that need work for the relation.
QualifyingParents ==
  {e \in BatchParents :
     IF Deferred(BatchProp)
     THEN \/ call.stack[Len(call.stack)].opts.refresh
          \/ ~(/\ Slot(ents, e, BatchProp.name).tag = "entity"
                /\ ents[Slot(ents, e, BatchProp.name).to].initialized)
     ELSE SlotNeedsWork(e, BatchProp, call.stack[Len(call.stack)].opts.refresh)}

\* The key and the ids of the em.find issued in this step, by relation kind.
BatchCondition ==
  /\ NoDuplicates(BatchFetch.ids)
  /\ (BatchProp.reference = MANY_TO_ONE \/ (BatchProp.reference = ONE_TO_ONE /\ BatchProp.owner)) =>
       /\ BatchFetch.key = "id"
       /\ Range(BatchFetch.ids) = {Slot(ents, e, BatchProp.name).to.k : e \in QualifyingParents}
  /\ (BatchProp.reference = ONE_TO_MANY \/ (BatchProp.reference = MANY_TO_MANY /\ ~BatchProp.owner)) =>
       /\ BatchFetch.key = BatchProp.mappedBy
       /\ Range(BatchFetch.ids) = {e.k : e \in QualifyingParents}

\* The Permission entities of the identity map, each of them twice.
PermissionsTwice ==
  SelectSeq(Instances("Permission", Ascending(PermissionPks))
              \o Instances("Permission", Ascending(PermissionPks)),
            LAMBDA e : e \in DOMAIN ents)

\* findChildren on the inverse side of a many-to-many, as a platform without
\* pivot tables runs it: the batch is keyed by the mappedBy field and holds the
\* keys of the parents whose collection needs work, each once.
InverseManyToManyBatch ==
  \A refresh \in BOOLEAN :
    \E f \in {findChildren(ents, PermissionsTwice, Prop("Permission", "accessProfiles"),
                             FieldNode(<<"accessProfiles">>), refresh, <<>>)} :
      \E Q \in {{e \in Range(PermissionsTwice) :
                    /\ Slot(ents, e, "accessProfiles").tag = "collection"
                    /\ (refresh \/ ~Slot(ents, e, "accessProfiles").initialized)}} :
        IF Q = {} THEN f = NoFetch
        ELSE /\ f.kind = "find" /\ f.key = "permissions"
             /\ NoDuplicates(f.ids)
             /\ Range(f.ids) = {e.k : e \in Q}

\* C20: the batch condition of the fetch for a field is "key in ids": for
\* MANY_TO_ONE and owning ONE_TO_ONE the key is the primary key of the target and
\* the ids are the keys of the references in the slots of the qualifying
\* parents; for ONE_TO_MANY and inverse MANY_TO_MANY the key is the mappedBy
\* field of the target and the ids are the keys of the qualifying parents; ids
\* has no duplicates and no key of a parent that does not qualify.
C20_BatchCondition ==
  /\ [](InverseManyToManyBatch)
  /\ [][(IssuesFetch /\ BatchFetch.kind = "find") => BatchCondition]_vars

\* Two qualifying parents refer to the same target, whose key is in the batch
\* once.
C20_Witness ==
  /\ call.pc = "await"
  /\ log[Len(log)].kind = "find" /\ log[Len(log)].key = "id"
  /\ Len(log[Len(log)].ids) = 1
  /\ \E e1, e2 \in Range(call.pending.frame.entities) :
       /\ e1 # e2
       /\ Slot(ents, e1, call.pending.pop.field[1]) = Slot(ents, e2, call.pending.pop.field[1])
       /\ Slot(ents, e1, call.pending.pop.field[1]).tag = "entity"
       /\ Slot(ents, e1, call.pending.pop.field[1]).to.k = log[Len(log)].ids[1]

\* findChildren was applied to parents given twice whose collections of the
\* inverse side of a many-to-many need work.
C20_InverseWitness ==
  /\ Len(PermissionsTwice) = 4
  /\ findChildren(ents, PermissionsTwice, Prop("Permission", "accessProfiles"),
                  FieldNode(<<"accessProfiles">>), FALSE, <<>>).ids = <<1, 2>>

(***************************************************************************)
(* Properties of the inverse side of a one-to-one.                         *)
(***************************************************************************)
\* The fetch issued in this step is for the inverse side of a one-to-one.
IssuesInverseOneToOne ==
  /\ IssuesFetch
  /\ BatchProp.reference = ONE_TO_ONE /\ ~BatchProp.owner

\* The parents whose slot is not an initialized entity (all of them on refresh).
NotLoadedParents ==
  {e \in BatchParents :
     \/ call.stack[Len(call.stack)].opts.refresh
     \/ ~(/\ Slot(ents, e, BatchProp.name).tag = "entity"
           /\ ents[Slot(ents, e, BatchProp.name).to].initialized)}

\* The references in the slots of the parents that are not resolved (all the
\* references on refresh).
ReferencesToLoad ==
  {Slot(ents, e, BatchProp.name).to :
     e \in {p \in BatchParents :
              /\ Slot(ents, p, BatchProp.name).tag = "entity"
              /\ \/ call.stack[Len(call.stack)].opts.refresh
                 \/ ~ents[Slot(ents, p, BatchProp.name).to].initialized}}

\* C21: for an inverse ONE_TO_ONE field, when the strategy of the node is not
\* JOINED and autoJoinOneToOneOwner is off, the fetch is batched by the mappedBy
\* field of the target with the keys of the parents whose slot is not an
\* initialized entity (all the parents on refresh); when the strategy is JOINED
\* there is no such lookup, and the fetch is batched by the primary key of the
\* target with the keys of the references present in the slots of the parents.
C21_InverseOneToOne ==
  [][IssuesInverseOneToOne =>
       /\ (call'.pending.pop.strategy # JOINED /\ ~cfg.autoJoinOneToOneOwner) =>
            /\ BatchFetch.key = BatchProp.mappedBy
            /\ Range(BatchFetch.ids) = {e.k : e \in NotLoadedParents}
       /\ call'.pending.pop.strategy = JOINED =>
            /\ BatchFetch.key = "id"
            /\ Range(BatchFetch.ids) = {r.k : r \in ReferencesToLoad}]_vars

\* A fetch for the inverse side of a one-to-one asked for with the JOINED
\* strategy is awaited while autoJoinOneToOneOwner is off: it is keyed by the
\* primary key of the profile found in the slot of the second user, and the first
\* user, whose slot is empty, has no key in it.
C21_Witness ==
  /\ call.pc = "await"
  /\ ~cfg.autoJoinOneToOneOwner
  /\ call.pending.pop.field = <<"ownedProfile">> /\ call.pending.pop.strategy = JOINED
  /\ Len(call.pending.frame.entities) = 2
  /\ log[Len(log)].key = "id" /\ log[Len(log)].ids = <<1>>
  /\ Slot(ents, Inst("User", 1), "ownedProfile").tag # "entity"
  /\ Slot(ents, Inst("User", 2), "ownedProfile") = SlotEntity(Inst("UserAccessProfile", 1))

\* The deferred lookup is awaited: it is keyed by the mappedBy field with the
\* keys of both parents, whose slots are empty.
C21_DeferredWitness ==
  /\ call.pc = "await"
  /\ ~cfg.autoJoinOneToOneOwner
  /\ call.pending.pop.field = <<"ownedProfile">> /\ call.pending.pop.strategy # JOINED
  /\ log[Len(log)].key = "owner" /\ log[Len(log)].ids = <<1, 2>>

(***************************************************************************)
(* Properties of the collections of a one-to-many.                         *)
(***************************************************************************)
\* The relation of the fetch the call is waiting for.
PendingProp == Prop(call.pending.frame.entityName, call.pending.pop.field[1])

\* findChildren has returned for a ONE_TO_MANY field, and in this step
\* populateMany goes on with the children and returns.
OneToManyReturns ==
  /\ call.pc = "rows"
  /\ PendingProp.reference = ONE_TO_MANY
  /\ call'.pc = "populated"

\* The parents of the fetch whose collection needs work.
QualifyingForPending ==
  {e \in Range(call.pending.frame.entities) :
     /\ Slot(ents, e, PendingProp.name).tag = "collection"
     /\ (call.pending.frame.opts.refresh \/ ~Slot(ents, e, PendingProp.name).initialized)}

\* The children the fetch returned, in its order.
FetchedChildren == Instances(PendingProp.type, call.pending.data)

\* After the step the collections hold the children that refer to their parent.
OneToManyAttached ==
  /\ \A q \in QualifyingForPending :
       /\ ents'[q].slots[PendingProp.name].tag = "collection"
       /\ ents'[q].slots[PendingProp.name].initialized
       /\ ents'[q].slots[PendingProp.name].items =
            SelectSeq(FetchedChildren,
                      LAMBDA child :
                        ents'[child].slots[PendingProp.mappedBy] =
                          IF <<PendingProp.type, PendingProp.mappedBy>> \in cfg.mapToPk
                          THEN SlotPk(q.k) ELSE SlotEntity(q))
  /\ \A child \in Range(FetchedChildren) :
       Cardinality({q \in Range(call.pending.frame.entities) :
                      /\ ents'[q].slots[PendingProp.name].tag = "collection"
                      /\ Contains(ents'[q].slots[PendingProp.name].items, child)}) <= 1
  /\ \A e \in Range(call.pending.frame.entities) \ QualifyingForPending :
       Slot(ents, e, PendingProp.name).tag = "collection" =>
         /\ ents'[e].slots[PendingProp.name].items = ents[e].slots[PendingProp.name].items
         /\ ents'[e].slots[PendingProp.name].initialized = ents[e].slots[PendingProp.name].initialized

\* C22: after the fetch for a ONE_TO_MANY field, the collection of every
\* qualifying parent is initialized and holds exactly the fetched children whose
\* inverse field refers to that parent, in fetch order, also when there is none;
\* each fetched child is in the collection of at most one parent, and the
\* collections of the parents that did not qualify are unchanged.
C22_OneToManyAttached == [][OneToManyReturns => OneToManyAttached]_vars

\* The fetch for users has returned for two profiles, the inverse field holding
\* references: the first holds both users in fetch order, the second is
\* initialized and empty.
C22_IdentityWitness ==
  /\ cfg.mapToPk = {}
  /\ log # <<>>
  /\ log[Len(log)].done /\ log[Len(log)].path = <<"users">>
  /\ log[Len(log)].ids = <<1, 2>> /\ log[Len(log)].rows = <<1, 2>>
  /\ Slot(ents, Inst("UserAccessProfile", 1), "users").items = <<Inst("User", 1), Inst("User", 2)>>
  /\ Slot(ents, Inst("UserAccessProfile", 2), "users").initialized

\* The same fetch with the inverse field declared mapToPk: the users hold the
\* key of their profile, and the first profile holds both of them.
C22_Witness ==
  /\ cfg.mapToPk = {<<"User", "accessProfile">>}
  /\ Slot(ents, Inst("User", 1), "accessProfile") = SlotPk(1)
  /\ log # <<>>
  /\ log[Len(log)].done /\ log[Len(log)].path = <<"users">>
  /\ log[Len(log)].ids = <<1, 2>> /\ log[Len(log)].rows = <<1, 2>>
  /\ Slot(ents, Inst("UserAccessProfile", 1), "users").items = <<Inst("User", 1), Inst("User", 2)>>
  /\ Slot(ents, Inst("UserAccessProfile", 2), "users").initialized
  /\ Slot(ents, Inst("UserAccessProfile", 2), "users").items = <<>>

(***************************************************************************)
(* Properties of the hydration of the collections.                         *)
(***************************************************************************)
\* The collection slots of the entities es that are initialized.
InitializedCollections(es) ==
  {<<e, f>> \in UNION {{<<i, g>> : g \in DOMAIN es[i].slots} : i \in DOMAIN es} :
     es[e].slots[f].tag = "collection" /\ es[e].slots[f].initialized}

\* A populate call without refresh is running.
RunsWithoutRefresh == call.pc \notin {"idle", "done"} /\ ~call.opts.refresh

\* The collections initialized when the call started are as they were.
KeptSinceStart ==
  (call.pc # "idle" /\ ~call.opts.refresh) =>
    \A c \in InitializedCollections(call.pre) :
      /\ ents[c[1]].slots[c[2]].initialized
      /\ ents[c[1]].slots[c[2]].items = call.pre[c[1]].slots[c[2]].items

\* A step of the call leaves every initialized collection as it is, and the
\* collections it hydrates when populateMany goes on with the children of a
\* collection relation were not initialized (the loader hydrates none for the
\* owning side of a many-to-many kept without a pivot table).
HydratesOnce ==
  /\ \A c \in InitializedCollections(ents) :
       /\ ents'[c[1]].slots[c[2]].initialized
       /\ ents'[c[1]].slots[c[2]].items = ents[c[1]].slots[c[2]].items
  /\ (call.pc = "rows" /\ call'.pc = "populated"
        /\ PendingProp.reference \in {ONE_TO_MANY, MANY_TO_MANY}
        /\ ~KeyedByItems(PendingProp)) =>
       \A e \in Range(call.pending.filtered) : <<e, PendingProp.name>> \notin InitializedCollections(ents)

\* C23: during a populate call with refresh = false, a collection that was
\* initialized when the call started is never hydrated again and keeps its
\* contents, and every collection is hydrated at most once in the call, also
\* when its entity is reached again at a deeper level of the populate tree.
C23_HydratedOnce ==
  /\ [](KeptSinceStart)
  /\ [][RunsWithoutRefresh => HydratesOnce]_vars

\* The call users.accessProfile.users without refresh is at its third level, on
\* the profile whose collection of users the first level hydrated.
C23_Witness ==
  /\ call.pc = "where" /\ ~call.opts.refresh
  /\ Len(call.stack) = 3
  /\ call.stack[3].path = <<"users", "accessProfile">>
  /\ call.pending.pop.field = <<"users">>
  /\ \E e \in Range(call.stack[3].entities) :
       /\ e \in Range(call.entities)
       /\ <<e, "users">> \in InitializedCollections(ents)
       /\ <<e, "users">> \notin InitializedCollections(call.pre)

(***************************************************************************)
(* Properties of the schema of a fetch.                                    *)
(***************************************************************************)
\* The relation of the probe.
SchemaProp == Prop(norm.entityName, norm.populate.field[1])

\* The parents whose slot refers to an entity that is to be loaded: every entity
\* referred to on refresh, otherwise those that are not loaded.
ReferringParents ==
  SelectSeq(norm.entities,
            LAMBDA e : /\ IsEntitySlot(Slot(ents, e, SchemaProp.name))
                       /\ \/ norm.opts.refresh
                          \/ ~ents[Slot(ents, e, SchemaProp.name).to].initialized)

\* The entities to load that the slots of the parents refer to, in parent order.
ReferencedEntities ==
  [i \in DOMAIN ReferringParents |-> Slot(ents, ReferringParents[i], SchemaProp.name).to]

\* The parents to look up: every parent on refresh, otherwise those whose slot
\* does not hold a loaded entity.
ParentsToLookUp ==
  SelectSeq(norm.entities,
            LAMBDA e : \/ norm.opts.refresh
                       \/ ~IsEntitySlot(Slot(ents, e, SchemaProp.name))
                       \/ ~ents[Slot(ents, e, SchemaProp.name).to].initialized)

\* The first non-empty schema carried by an entity of the list.
FirstCarried(list) ==
  IF \A i \in DOMAIN list : norm.schemas[list[i]] \in {Undefined, ""} THEN Undefined
  ELSE norm.schemas[list[CHOOSE i \in DOMAIN list :
                            /\ norm.schemas[list[i]] \notin {Undefined, ""}
                            /\ \A j \in 1..(i - 1) : norm.schemas[list[j]] \in {Undefined, ""}]]

\* The inverse side of a one-to-one whose fetch is keyed by the parents.
SchemaDeferred ==
  /\ SchemaProp.reference = ONE_TO_ONE /\ ~SchemaProp.owner
  /\ norm.populate.strategy # JOINED /\ ~cfg.autoJoinOneToOneOwner

\* A schema option is given: it is neither undefined nor the empty string.
SchemaGiven == norm.opts.schema \notin {Undefined, ""}

\* C24 (amended): the schema of a relation fetch is the schema option when a
\* non-empty one is given; no schema option reaches a nested level; without one,
\* a MANY_TO_ONE or ONE_TO_ONE fetch uses the first non-empty schema carried by
\* the entities whose keys make the batch, or none when none carries one.  These
\* are the referenced entities to load (on refresh every referenced entity) or,
\* for the inverse side of a one-to-one looked up by a fetch of its own, the
\* parents that do not hold a loaded entity (on refresh every parent).  For
\* collection relations no schema is inferred: the fetch gets the option as it is.
C24_FetchSchema ==
  /\ norm.phase \in {"schema", "found", "no-fetch"} /\ norm.nested => norm.opts.schema = Undefined
  /\ norm.phase = "found" =>
       IF SchemaGiven THEN norm.out = norm.opts.schema
       ELSE IF SchemaProp.reference \notin {MANY_TO_ONE, ONE_TO_ONE} THEN norm.out = norm.opts.schema
       ELSE IF SchemaDeferred THEN norm.out = FirstCarried(ParentsToLookUp)
       ELSE norm.out = FirstCarried(ReferencedEntities)

\* At a nested level, where the schema option given at the root is gone, the
\* fetch of a many-to-one takes the schema of the second reference: the first
\* carries none.
C24_Witness ==
  /\ norm.phase = "found" /\ norm.nested
  /\ SchemaProp.reference = MANY_TO_ONE
  /\ ~ents[Inst("UserAccessProfile", 1)].initialized
  /\ norm.children = <<Inst("UserAccessProfile", 1), Inst("UserAccessProfile", 2)>>
  /\ norm.schemas[Inst("UserAccessProfile", 1)] = Undefined
  /\ norm.schemas[Inst("UserAccessProfile", 2)] = "tenant_01"
  /\ norm.schemas[Inst("User", 1)] = "tenant_02"
  /\ norm.out = "tenant_01"

\* C24 as stated: without a schema option, every MANY_TO_ONE or ONE_TO_ONE fetch
\* uses the schema of the first referenced entity that carries one.
C24_ReferencedSchema ==
  norm.phase = "found" =>
    IF SchemaGiven THEN norm.out = norm.opts.schema
    ELSE IF SchemaProp.reference \notin {MANY_TO_ONE, ONE_TO_ONE} THEN norm.out = norm.opts.schema
    ELSE norm.out = FirstCarried(ReferencedEntities)

(***************************************************************************)
(* Properties of the top level of the normalized tree.                     *)
(***************************************************************************)
\* The top-level fields of the caller: the heads of the paths of the request,
\* every relation of the root type for a request of all.
CallerTopLevel ==
  IF IsAllRequest(norm.populate) THEN {<<r>> : r \in Range(Relations(norm.entityName))}
  ELSE {<<norm.populate.list[i].field[1]>> : i \in DOMAIN norm.populate.list}

\* C25: with the eager lookup, the top-level fields of the normalized result are
\* exactly the caller's top-level fields (heads of dotted paths) and the eager
\* relations of the root type; a node given as a child under a relation is never
\* a top-level field of the root, also when the target type of that relation was
\* already visited on the path or has no metadata.
C25_TopLevelFields ==
  (norm.phase = "out" /\ norm.lookup) =>
    {norm.out[k].field : k \in DOMAIN norm.out}
      = CallerTopLevel \cup {<<e>> : e \in EagerRelations(norm.entityName)}

(***************************************************************************)
(* Properties of two interleaved populate calls.                           *)
(***************************************************************************)
\* Both calls have returned without an error.
BothDone == \A c \in Callers : call[c].pc = "done" /\ call[c].result = "ok"

\* The users the store has for the profile with the key k.
StoredUsers(k) == {Inst("User", u) : u \in {v \in Pks : db.fk[<<"User", "accessProfile">>][v] = k}}

\* C26: when two populate calls for the same ONE_TO_MANY field on the same
\* parents run interleaved with refresh = false, then in every interleaving,
\* once both have returned, the Collection of every parent is initialized and
\* holds each of the parent's children exactly once, and no second in-memory
\* instance of any entity exists.
C26_Interleaved ==
  BothDone =>
    /\ \A i \in DOMAIN norm.entities :
         /\ IsCollectionSlot(Slot(ents, norm.entities[i], "users"))
         /\ Slot(ents, norm.entities[i], "users").initialized
         /\ NoDuplicates(Slot(ents, norm.entities[i], "users").items)
         /\ Range(Slot(ents, norm.entities[i], "users").items) = StoredUsers(norm.entities[i].k)
    /\ \A e \in DOMAIN ents : e.n = 0

====
